---------------------------- MODULE Spec2Model ----------------------------
(***************************************************************************)
(* Model of the multithreaded UDP chat server (src/chat_server.c, lines    *)
(* 1-861): the client registry (a linked list of malloc'ed nodes guarded   *)
(* by clients_lock), the history ring (guarded by history_lock), the       *)
(* request handler that runs once per datagram in its own detached thread, *)
(* and the inactivity monitor thread.                                      *)
(*                                                                         *)
(* Granularity.  One action is one critical section of the code (the code  *)
(* between a lock and its unlock) together with the thread-local code      *)
(* that follows it up to the next access to shared memory.  The two locks  *)
(* are never nested, write sections exclude every other section, and read *)
(* sections do not write the registry, so executing a section in one step  *)
(* loses no registry state.  Accesses the code makes to a client record    *)
(* WITHOUT holding the lock are steps of their own.                        *)
(*                                                                         *)
(* Pointers.  A ClientNode* is a chunk id.  A handler keeps the pointer it *)
(* looked up across lock sections; the chunk may have been freed and even  *)
(* handed out again by malloc in between.  A read through a pointer to a   *)
(* freed chunk is undefined behaviour and is modelled as a choice over the *)
(* values the field can hold; a write to a freed chunk changes no client.  *)
(***************************************************************************)
EXTENDS Integers, Sequences, FiniteSets, TLC

(***************************************************************************)
(* Program constants.                                                      *)
(***************************************************************************)
MAX_NAME_LEN == 64
MAX_MUTE == 64
HISTORY_SIZE == 15
INACTIVITY_THRESHOLD == 10
PING_TIMEOUT == 20
MONITOR_INTERVAL == 10
ADMIN_PORT == 6666
CLIENT_PORT == 55555
\* README.md, Limits: #define INACTIVITY_THRESHOLD 600 (10 minutes)
INACTIVITY_THRESHOLD_README == 600

(***************************************************************************)
(* Bounds of the model.                                                    *)
(***************************************************************************)
NumNodes == 3        \* chunks malloc can hand out before it returns NULL
TickStep == 10       \* seconds by which one Tick advances the clock
MaxTime == 40        \* the clock stops here
MaxK == 17           \* broadcasts of the history scenario (> HISTORY_SIZE)
TrafficUntil == 20   \* liveness scenarios: clients send nothing after this time
LiveUntil == 100     \* liveness scenarios: the clock stops here

NULL == 0
\* the monitor thread and the handler threads that can run at the same time
Mon == "mon"
WorkerSeq == <<"w1", "w2", "w3", "w4">>
Workers == {WorkerSeq[i] : i \in 1..Len(WorkerSeq)}
Threads == {Mon} \cup Workers
Nodes == 1..NumNodes

Min(S) == CHOOSE x \in S : \A y \in S : x <= y

(***************************************************************************)
(* Strings are sequences of characters, so that a copy into a              *)
(* char[MAX_NAME_LEN] field really cuts.                                   *)
(***************************************************************************)
Str(c, n) == [i \in 1..n |-> c]
Empty == << >>
NameA == <<"a">>
NameB == <<"b">>
NameC == <<"c">>
Long63 == Str("x", MAX_NAME_LEN - 1)
Long64 == Str("x", MAX_NAME_LEN)
\* what a read of a freed chunk's name may yield besides a real name
Garbage == <<"?">>

\* strncpy(dst, src, MAX_NAME_LEN - 1); dst[MAX_NAME_LEN - 1] = '\0'
TruncName(s) == IF Len(s) <= MAX_NAME_LEN - 1 THEN s ELSE SubSeq(s, 1, MAX_NAME_LEN - 1)

\* struct sockaddr_in of a datagram's sender: IP and port
Addr(ip, port) == [ip |-> ip, port |-> port]
A1 == Addr(1, CLIENT_PORT)
A2 == Addr(2, CLIENT_PORT)
A3 == Addr(3, CLIENT_PORT)
Admin == Addr(9, ADMIN_PORT)

sockaddrs_equal(a, b) == a.port = b.port /\ a.ip = b.ip

(***************************************************************************)
(* A datagram "type$payload" after rtrim, the split at the first '$' and   *)
(* trim_spaces of both halves.  type "malformed" stands for a datagram     *)
(* without '$'.  For sayto, payload is the first token strtok cuts off     *)
(* and rest is what strtok(NULL, "") returns (Empty for NULL).             *)
(***************************************************************************)
Dgram(a, ty, p, r) == [addr |-> a, type |-> ty, payload |-> p, rest |-> r]
NoReq == Dgram(Addr(0, 0), "none", Empty, Empty)

(***************************************************************************)
(* The lines the server sends, one constructor per snprintf format.        *)
(***************************************************************************)
ErrMalformed == <<"ERR$Malformed request (no $)">>
ErrEmptyName == <<"ERR$Name cannot be empty">>
ErrInUse(p) == <<"ERR$Name already in use", p>>
ErrFull == <<"ERR$Server full or name taken">>
Welcome(p) == <<"SYS$Hi, you have successfully connected to the chat", p>>
Joined(p) == <<"SYS$has joined the chat", p>>
ErrMustConn(what) == <<"ERR$You must conn$<name> before", what>>
ChatLine(n, p) == <<"%s: %s", n, p>>
ErrSaytoArgs == <<"ERR$sayto requires a recipient and message">>
ErrNoRecipient(n) == <<"ERR$Recipient not found", n>>
Blocked(n) == <<"SYS$Your message could not be delivered (you are muted by)", n>>
PrivLine(n, m) == <<"%s (private): %s", n, m>>
Ack(n) == <<"SYS$Message delivered to", n>>
ErrNeedName(cmd) == <<"ERR$requires a client name", cmd>>
Muted(p) == <<"SYS$You have muted", p>>
ErrMute(p) == <<"ERR$Unable to mute (maybe full list)", p>>
Unmuted(p) == <<"SYS$You have unmuted", p>>
ErrNotMuted(p) == <<"ERR$was not muted", p>>
ErrRenameEmpty == <<"ERR$rename requires a new name">>
NowKnown(p) == <<"SYS$You are now known as", p>>
Renamed(old, p) == <<"SYS$is now known as", old, p>>
NotConnected == <<"SYS$You are not connected">>
Bye == <<"SYS$Disconnected. Bye!">>
Left(n) == <<"SYS$has left the chat", n>>
ErrAdminOnly == <<"ERR$kick is admin-only">>
ErrNoClient(p) == <<"ERR$Client not found", p>>
YouRemoved == <<"SYS$You have been removed from the chat">>
Removed(n) == <<"SYS$has been removed from the chat", n>>
ErrUnknown(ty) == <<"ERR$Unknown command", ty>>
Ping == <<"ping$">>
YouInactive == <<"SYS$You have been disconnected due to inactivity">>
Inactive(n) == <<"SYS$has been disconnected due to inactivity", n>>
\* snprintf(wrapped, BUFFER_SIZE, "[History] %s", history[index])
HistoryWrap(line) == <<"[History] ", line>>

VARIABLES
    clients_head,   \* the linked list, head first: a sequence of chunk ids
    mem,            \* chunk id -> the Client stored in it
    allocated,      \* chunks malloc has handed out and free has not taken back
    heap_top,       \* chunks 1..heap_top have been handed out at least once
    history,        \* history[0..HISTORY_SIZE-1]
    history_start,
    history_count,
    clock,          \* time(NULL)
    pc,             \* thread -> where it stands
    req,            \* worker -> its worker_arg_t
    loc,            \* thread -> its local variables
    log,            \* thread -> the udp_socket_write calls of its current run
    rounds,         \* datagrams the clients still send: a sequence of batches
    round_start,    \* history variable: who was registered when the batch began
    appended,       \* history variable: every line given to history_add, in order
    probe           \* history variable: chunk -> the probe outstanding for its client

vars == <<clients_head, mem, allocated, heap_top, history, history_start,
          history_count, clock, pc, req, loc, log, rounds, round_start, appended, probe>>

registry == <<clients_head, mem, allocated, heap_top>>
hist == <<history, history_start, history_count, appended>>
env == <<rounds, round_start>>

\* the bytes of a chunk no client owns; never read as a client's
ZeroClient == [name |-> Empty, addr |-> Addr(0, 0), muted |-> << >>,
               last_active |-> 0, ping_sent |-> 0, ping_time |-> 0]

NoLoc == [sender |-> NULL, recipient |-> NULL, target |-> NULL, skip |-> NULL,
          mode |-> "none", msg |-> Empty, muted |-> 0,
          now |-> 0, oldest |-> 0, wake |-> 0,
          at |-> "none",    \* where the thread stood when it last took a lock
          i |-> 0]          \* the loop variable of history_send_to_client

Range(s) == {s[i] : i \in 1..Len(s)}
InList(n) == n \in Range(clients_head)
Live(n) == n \in allocated
RemoveAt(s, i) == SubSeq(s, 1, i - 1) \o SubSeq(s, i + 1, Len(s))

(***************************************************************************)
(* Registry helpers (the caller holds clients_lock).                       *)
(***************************************************************************)
FirstWith(P(_)) ==
    LET idx == {i \in 1..Len(clients_head) : P(clients_head[i])}
    IN IF idx = {} THEN NULL ELSE clients_head[Min(idx)]

find_client_by_addr(addr) ==
    LET Hit(n) == sockaddrs_equal(mem[n].addr, addr) IN FirstWith(Hit)

\* strcmp(cur->client.name, name) == 0: against the caller's string as given
find_client_by_name(name) ==
    LET Hit(n) == mem[n].name = name IN FirstWith(Hit)

\* the chunks malloc may return: one that was freed, or the next fresh one
MallocChoices ==
    LET reuse == (1..heap_top) \ allocated
        fresh == IF heap_top < NumNodes THEN {heap_top + 1} ELSE {}
    IN reuse \cup fresh

NewClient(name, addr) ==
    [name |-> TruncName(name), addr |-> addr, muted |-> << >>,
     last_active |-> clock, ping_sent |-> 0, ping_time |-> 0]

\* remove_client: unlink and free the node if it is in the list, else nothing
ListWithout(n) == SelectSeq(clients_head, LAMBDA x : x # n)

recipient_has_muted_sender(n, sender_name) ==
    \E i \in 1..Len(mem[n].muted) : mem[n].muted[i] = sender_name

\* add_muted: -1 when full, 0 and no change when present, else append
add_muted_res(n, target) ==
    IF Len(mem[n].muted) >= MAX_MUTE THEN -1 ELSE 0

add_muted_list(n, target) ==
    IF Len(mem[n].muted) >= MAX_MUTE THEN mem[n].muted
    ELSE IF \E i \in 1..Len(mem[n].muted) : mem[n].muted[i] = target THEN mem[n].muted
    ELSE Append(mem[n].muted, TruncName(target))

remove_muted_found(n, target) ==
    LET idx == {i \in 1..Len(mem[n].muted) : mem[n].muted[i] = target}
    IN IF idx = {} THEN -1 ELSE Min(idx)

remove_muted_list_head(n, target) == SubSeq(mem[n].muted, 2, Len(mem[n].muted))

remove_muted_list(n, target) ==
    LET f == remove_muted_found(n, target)
    IN IF f = -1 THEN mem[n].muted ELSE RemoveAt(mem[n].muted, f)

(***************************************************************************)
(* Reads through a pointer that may dangle.                                *)
(***************************************************************************)
NameReads == {NameA, NameB, NameC, Long63, Garbage}
ReadName(n) == IF Live(n) THEN {mem[n].name} ELSE NameReads
ReadAddr(n) == IF Live(n) THEN {mem[n].addr} ELSE {A1, A2, A3}
ReadFlag(n, v) == IF Live(n) THEN {v} ELSE {0, 1}

(***************************************************************************)
(* History ring.                                                           *)
(***************************************************************************)
history_index_from_zero(i) == i % HISTORY_SIZE

\* int index = (history_start + i) % HISTORY_SIZE
history_index(i) == (history_start + i) % HISTORY_SIZE

\* the lines history_send_to_client writes, in the order it writes them
HistoryLines == [i \in 1..history_count |-> HistoryWrap(history[history_index(i - 1)])]

\* as history_add, with history_count incremented on every call
history_add_grows(msg) ==
    /\ appended' = Append(appended, msg)
    /\ history' = [history EXCEPT ![history_index(history_count)] = msg]
    /\ history_count' = history_count + 1
    /\ history_start' = history_start

history_add(msg) ==
    /\ appended' = Append(appended, msg)
    /\ history' = [history EXCEPT ![history_index(history_count)] = msg]
    /\ IF history_count < HISTORY_SIZE
       THEN /\ history_count' = history_count + 1
            /\ history_start' = history_start
       ELSE /\ history_start' = (history_start + 1) % HISTORY_SIZE
            /\ history_count' = history_count

(***************************************************************************)
(* Sending.  Every udp_socket_write of a thread is appended to its log     *)
(* with the lock the thread holds while it writes.                         *)
(***************************************************************************)
Sent(to, m, lk) == [to |-> to, msg |-> m, lk |-> lk]
Reply(t, m) == Sent(req[t].addr, m, "none")

Finish(t, sends) ==
    /\ pc' = [pc EXCEPT ![t] = "done"]
    /\ loc' = [loc EXCEPT ![t] = NoLoc]
    /\ log' = [log EXCEPT ![t] = @ \o sends]

Goto(t, label, newloc, sends) ==
    /\ pc' = [pc EXCEPT ![t] = label]
    /\ loc' = [loc EXCEPT ![t] = newloc]
    /\ log' = [log EXCEPT ![t] = @ \o sends]

(***************************************************************************)
(* The environment: clients send the datagrams of the current batch in any *)
(* order; main() hands each to a fresh handler thread.  The next batch is  *)
(* sent when every handler of the current one has returned.                *)
(***************************************************************************)
Idle(t) == pc[t] = "done"
\* a thread of its own for every datagram of the batch
Fresh(t) == Idle(t) /\ req[t] = NoReq

FirstLabel(d) ==
    IF d.type = "malformed" THEN "malformed"
    ELSE IF d.type = "ret-ping" THEN "retping"
    ELSE "lookup"

Dispatch ==
    /\ rounds # << >>
    /\ Head(rounds) # << >>
    /\ \E k \in 1..Len(WorkerSeq) :
          /\ Fresh(WorkerSeq[k])
          /\ \A j \in 1..(k - 1) : ~Fresh(WorkerSeq[j])
          /\ \E i \in 1..Len(Head(rounds)) :
                LET d == Head(rounds)[i]
                    t == WorkerSeq[k]
                IN /\ rounds' = <<RemoveAt(Head(rounds), i)>> \o Tail(rounds)
                   /\ req' = [req EXCEPT ![t] = d]
                   /\ pc' = [pc EXCEPT ![t] = FirstLabel(d)]
                   /\ loc' = [loc EXCEPT ![t] = NoLoc]
                   /\ log' = [log EXCEPT ![t] = << >>]
    /\ UNCHANGED <<registry, hist, clock, round_start, probe>>

\* the names and addresses registered right now
Registered == {[addr |-> mem[n].addr, name |-> mem[n].name] : n \in Range(clients_head)}

NextRound ==
    /\ rounds # << >>
    /\ Head(rounds) = << >>
    /\ \A t \in Workers : Idle(t)
    /\ rounds' = Tail(rounds)
    /\ round_start' = Registered
    /\ req' = [t \in Workers |-> NoReq]
    /\ log' = [t \in Threads |-> IF t \in Workers THEN << >> ELSE log[t]]
    /\ UNCHANGED <<registry, hist, clock, pc, loc, probe>>

\* time passes
Tick ==
    /\ clock + TickStep <= MaxTime
    /\ clock' = clock + TickStep
    /\ UNCHANGED <<registry, hist, pc, req, loc, log, env, probe>>

(***************************************************************************)
(* request_handler, lines 329-373: parse, ret-ping, identify the sender.   *)
(***************************************************************************)
\* as Malformed, without the write of line 337
Malformed_silent(t) ==
    /\ pc[t] = "malformed"
    /\ Finish(t, << >>)
    /\ UNCHANGED <<registry, hist, clock, req, env, probe>>

Malformed(t) ==
    /\ pc[t] = "malformed"
    /\ Finish(t, <<Reply(t, ErrMalformed)>>)
    /\ UNCHANGED <<registry, hist, clock, req, env, probe>>

\* history variable: no probe, or the address the probe of this record went
\* to, the monitor's time when it was marked, and whether the handler of a
\* request from that address has come to its liveness update since
NoProbe == [to |-> Addr(0, 0), at |-> 0, answered |-> FALSE]
Answered(from) ==
    [n \in Nodes |-> IF probe[n] # NoProbe /\ sockaddrs_equal(probe[n].to, from)
                     THEN [probe[n] EXCEPT !.answered = TRUE] ELSE probe[n]]

\* node->client.last_active = time(NULL); ping_sent = 0; ping_time = 0
Touched(c) == [c EXCEPT !.last_active = clock, !.ping_sent = 0, !.ping_time = 0]

RetPing(t) ==
    /\ pc[t] = "retping"
    /\ LET node == find_client_by_addr(req[t].addr)
       IN /\ mem' = IF node # NULL THEN [mem EXCEPT ![node] = Touched(@)] ELSE mem
          /\ probe' = Answered(req[t].addr)
    /\ Finish(t, << >>)
    /\ UNCHANGED <<clients_head, allocated, heap_top, hist, clock, req, env>>

is_admin_anyone(addr) == TRUE

\* lines 652-653: requester_port = ntohs(client_addr.sin_port); == 6666
is_admin(addr) == addr.port = ADMIN_PORT

\* What the handler does between identifying the sender and the first
\* access to shared state of its command: the label to continue at, or
\* "done" with the reply it sends.
Branch(d, sender) ==
    CASE d.type = "conn" ->
            IF d.payload = Empty THEN [pc |-> "done", out |-> <<ErrEmptyName>>]
            ELSE [pc |-> "conn_reg", out |-> << >>]
      [] d.type = "say" ->
            IF sender = NULL THEN [pc |-> "done", out |-> <<ErrMustConn("sending messages")>>]
            ELSE IF d.payload = Empty THEN [pc |-> "done", out |-> << >>]
            ELSE [pc |-> "say_fmt", out |-> << >>]
      [] d.type = "sayto" ->
            IF sender = NULL THEN [pc |-> "done", out |-> <<ErrMustConn("sending messages")>>]
            ELSE IF d.payload = Empty \/ d.rest = Empty
                 THEN [pc |-> "done", out |-> <<ErrSaytoArgs>>]
            ELSE [pc |-> "st_find", out |-> << >>]
      [] d.type = "mute" ->
            IF sender = NULL THEN [pc |-> "done", out |-> <<ErrMustConn("muting users")>>]
            ELSE IF d.payload = Empty THEN [pc |-> "done", out |-> <<ErrNeedName("mute")>>]
            ELSE [pc |-> "mute_do", out |-> << >>]
      [] d.type = "unmute" ->
            IF sender = NULL THEN [pc |-> "done", out |-> <<ErrMustConn("unmuting users")>>]
            ELSE IF d.payload = Empty THEN [pc |-> "done", out |-> <<ErrNeedName("unmute")>>]
            ELSE [pc |-> "unmute_do", out |-> << >>]
      [] d.type = "rename" ->
            IF sender = NULL THEN [pc |-> "done", out |-> <<ErrMustConn("renaming")>>]
            ELSE IF d.payload = Empty THEN [pc |-> "done", out |-> <<ErrRenameEmpty>>]
            ELSE [pc |-> "rename_do", out |-> << >>]
      [] d.type = "disconn" ->
            IF sender = NULL THEN [pc |-> "done", out |-> <<NotConnected>>]
            ELSE [pc |-> "disc_do", out |-> << >>]
      [] d.type = "kick" ->
            IF ~is_admin(d.addr) THEN [pc |-> "done", out |-> <<ErrAdminOnly>>]
            ELSE IF d.payload = Empty THEN [pc |-> "done", out |-> <<ErrNeedName("kick")>>]
            ELSE [pc |-> "kick_do", out |-> << >>]
      [] OTHER -> [pc |-> "done", out |-> <<ErrUnknown(d.type)>>]

\* as Continue, without the test of line 452
Continue_say_empty(t, sender) ==
    LET b == IF req[t].type = "say" /\ sender # NULL
             THEN [pc |-> "say_fmt", out |-> << >>]
             ELSE Branch(req[t], sender)
        sends == [i \in 1..Len(b.out) |-> Reply(t, b.out[i])]
    IN IF b.pc = "done" THEN Finish(t, sends)
       ELSE Goto(t, b.pc, [loc[t] EXCEPT !.sender = sender], sends)

Continue(t, sender) ==
    LET b == Branch(req[t], sender)
        sends == [i \in 1..Len(b.out) |-> Reply(t, b.out[i])]
    IN IF b.pc = "done" THEN Finish(t, sends)
       ELSE Goto(t, b.pc, [loc[t] EXCEPT !.sender = sender], sends)

\* lines 362-364: sender = find_client_by_addr(&client_addr) under the read lock
Lookup(t) ==
    /\ pc[t] = "lookup"
    /\ LET sender == find_client_by_addr(req[t].addr)
       IN IF sender # NULL
          THEN Goto(t, "touch", [loc[t] EXCEPT !.sender = sender], << >>)
          ELSE Continue(t, NULL)
    /\ UNCHANGED <<registry, hist, clock, req, env, probe>>

\* lines 366-373: the liveness update, through the pointer looked up before
Touch(t) ==
    /\ pc[t] = "touch"
    /\ LET sender == loc[t].sender
       IN /\ mem' = IF Live(sender) THEN [mem EXCEPT ![sender] = Touched(@)] ELSE mem
          /\ probe' = Answered(req[t].addr)
    /\ Continue(t, loc[t].sender)
    /\ UNCHANGED <<clients_head, allocated, heap_top, hist, clock, req, env>>

(***************************************************************************)
(* broadcast_all and broadcast_from_sender: history_add under              *)
(* history_lock, then one pass over the list under the read lock, writing  *)
(* to the socket inside it.  loc.mode tells the two apart; loc.skip is the *)
(* node passed as skip or as sender.                                       *)
(***************************************************************************)
StartBroadcast(t, mode, msg, skip, sends) ==
    Goto(t, "bc_hist", [loc[t] EXCEPT !.mode = mode, !.msg = msg, !.skip = skip], sends)

\* as BcHist, without the call of history_add
BcHist_no_append(t) ==
    /\ pc[t] = "bc_hist"
    /\ Goto(t, "bc_send", loc[t], << >>)
    /\ UNCHANGED <<registry, hist, clock, req, env, probe>>

BcHist(t) ==
    /\ pc[t] = "bc_hist"
    /\ history_add(loc[t].msg)
    /\ Goto(t, "bc_send", loc[t], << >>)
    /\ UNCHANGED <<registry, clock, req, env, probe>>

\* the nodes broadcast_all writes to, in list order
RecipientsAll(skip) == SelectSeq(clients_head, LAMBDA n : n # skip)

\* the nodes broadcast_from_sender writes to when sender->client.name reads as nm
RecipientsFrom(sender, nm) ==
    SelectSeq(clients_head, LAMBDA n : n # sender /\ ~recipient_has_muted_sender(n, nm))

BcSends(t, rcpts) == [i \in 1..Len(rcpts) |-> Sent(mem[rcpts[i]].addr, loc[t].msg, "clients_lock")]

\* a thread that returns: a handler is done, the monitor goes back to sleep
Return(t, sends) ==
    IF t = Mon
    THEN Goto(t, "m_sleep", [NoLoc EXCEPT !.wake = clock + MONITOR_INTERVAL], sends)
    ELSE Finish(t, sends)

BcSend(t) ==
    /\ pc[t] = "bc_send"
    /\ IF loc[t].mode = "all"
       THEN Return(t, BcSends(t, RecipientsAll(loc[t].skip)))
       ELSE \E nm \in ReadName(loc[t].skip) :
               Return(t, BcSends(t, RecipientsFrom(loc[t].skip, nm)))
    /\ UNCHANGED <<registry, hist, clock, req, env, probe>>

(***************************************************************************)
(* conn, lines 376-439.                                                    *)
(***************************************************************************)
conn_existing_stale(t) == loc[t].sender

\* line 388: the sender is looked up again, by address, under the write lock
conn_existing(t) == find_client_by_addr(req[t].addr)

\* lines 386-428: register under the write lock, then the welcome
ConnReg(t) ==
    /\ pc[t] = "conn_reg"
    /\ LET p == req[t].payload
           existing == conn_existing(t)
       IN IF existing # NULL
          THEN IF find_client_by_name(p) # NULL /\ mem[existing].name # p
               THEN /\ Finish(t, <<Reply(t, ErrInUse(p))>>)
                    /\ UNCHANGED <<registry, probe>>
               ELSE /\ mem' = [mem EXCEPT ![existing].name = TruncName(p)]
                    /\ Goto(t, "conn_hist", [loc[t] EXCEPT !.sender = existing],
                            <<Reply(t, Welcome(p))>>)
                    /\ UNCHANGED <<clients_head, allocated, heap_top, probe>>
          ELSE IF find_client_by_name(p) # NULL
               THEN /\ Finish(t, <<Reply(t, ErrInUse(p))>>)
                    /\ UNCHANGED <<registry, probe>>
               ELSE IF MallocChoices = {}
               THEN /\ Finish(t, <<Reply(t, ErrFull)>>)
                    /\ UNCHANGED <<registry, probe>>
               ELSE \E node \in MallocChoices :
                    /\ mem' = [mem EXCEPT ![node] = NewClient(p, req[t].addr)]
                    /\ clients_head' = <<node>> \o clients_head
                    /\ allocated' = allocated \cup {node}
                    /\ heap_top' = IF node > heap_top THEN node ELSE heap_top
                    /\ probe' = [probe EXCEPT ![node] = NoProbe]
                    /\ Goto(t, "conn_hist", [loc[t] EXCEPT !.sender = node],
                            <<Reply(t, Welcome(p))>>)
    /\ UNCHANGED <<hist, clock, req, env>>

\* history_send_to_client, lines 268-279: writes inside history_lock
ReplaySends(t) == [i \in 1..history_count |-> Sent(req[t].addr, HistoryLines[i], "history_lock")]

ConnReplay(t) ==
    /\ pc[t] = "conn_hist"
    /\ StartBroadcast(t, "all", Joined(req[t].payload), loc[t].sender, ReplaySends(t))
    /\ UNCHANGED <<registry, hist, clock, req, env, probe>>

(***************************************************************************)
(* say, lines 442-460.                                                     *)
(***************************************************************************)
\* line 456: sender->client.name is read without the lock
SayFmt(t) ==
    /\ pc[t] = "say_fmt"
    /\ \E nm \in ReadName(loc[t].sender) :
          StartBroadcast(t, "from", ChatLine(nm, req[t].payload), loc[t].sender, << >>)
    /\ UNCHANGED <<registry, hist, clock, req, env, probe>>

(***************************************************************************)
(* sayto, lines 464-518.                                                   *)
(***************************************************************************)
StFind(t) ==
    /\ pc[t] = "st_find"
    /\ LET recipient == find_client_by_name(req[t].payload)
       IN IF recipient = NULL
          THEN Finish(t, <<Reply(t, ErrNoRecipient(req[t].payload))>>)
          ELSE Goto(t, "st_muted", [loc[t] EXCEPT !.recipient = recipient], << >>)
    /\ UNCHANGED <<registry, hist, clock, req, env, probe>>

\* lines 494-496: both pointers were looked up in earlier lock sections
MutedReads(recipient, sender) ==
    IF Live(recipient)
    THEN {IF recipient_has_muted_sender(recipient, nm) THEN 1 ELSE 0 : nm \in ReadName(sender)}
    ELSE {0, 1}

StMuted(t) ==
    /\ pc[t] = "st_muted"
    /\ \E m \in MutedReads(loc[t].recipient, loc[t].sender) :
          Goto(t, "st_send", [loc[t] EXCEPT !.muted = m], << >>)
    /\ UNCHANGED <<registry, hist, clock, req, env, probe>>

\* lines 498-517: names and the recipient's address are read without the lock
StSend(t) ==
    /\ pc[t] = "st_send"
    /\ IF loc[t].muted = 1
       THEN \E rn \in ReadName(loc[t].recipient) : Finish(t, <<Reply(t, Blocked(rn))>>)
       ELSE \E sn \in ReadName(loc[t].sender), rn \in ReadName(loc[t].recipient),
               ra \in ReadAddr(loc[t].recipient) :
               Finish(t, <<Sent(ra, PrivLine(sn, req[t].rest), "none"), Reply(t, Ack(rn))>>)
    /\ UNCHANGED <<registry, hist, clock, req, env, probe>>

(***************************************************************************)
(* mute and unmute, lines 522-579: the sender is looked up again under the *)
(* write lock.                                                             *)
(***************************************************************************)
MuteDo(t) ==
    /\ pc[t] = "mute_do"
    /\ LET sender == find_client_by_addr(req[t].addr)
           p == req[t].payload
       IN IF sender = NULL
          THEN /\ mem' = mem
               /\ Finish(t, <<Reply(t, ErrMute(p))>>)
          ELSE /\ mem' = [mem EXCEPT ![sender].muted = add_muted_list(sender, p)]
               /\ Finish(t, <<Reply(t, IF add_muted_res(sender, p) = 0 THEN Muted(p) ELSE ErrMute(p))>>)
    /\ UNCHANGED <<clients_head, allocated, heap_top, hist, clock, req, env, probe>>

UnmuteDo(t) ==
    /\ pc[t] = "unmute_do"
    /\ LET sender == find_client_by_addr(req[t].addr)
           p == req[t].payload
       IN IF sender = NULL
          THEN /\ mem' = mem
               /\ Finish(t, <<Reply(t, ErrNotMuted(p))>>)
          ELSE /\ mem' = [mem EXCEPT ![sender].muted = remove_muted_list(sender, p)]
               /\ Finish(t, <<Reply(t, IF remove_muted_found(sender, p) # -1 THEN Unmuted(p) ELSE ErrNotMuted(p))>>)
    /\ UNCHANGED <<clients_head, allocated, heap_top, hist, clock, req, env, probe>>

(***************************************************************************)
(* rename, lines 582-621: the duplicate check and the write use the        *)
(* pointer looked up at line 363.                                          *)
(***************************************************************************)
RenameDo(t) ==
    /\ pc[t] = "rename_do"
    /\ LET p == req[t].payload
           sender == loc[t].sender
           existing == find_client_by_name(p)
       IN IF existing # NULL /\ existing # sender
          THEN /\ mem' = mem
               /\ Finish(t, <<Reply(t, ErrInUse(p))>>)
          ELSE \E old_name \in ReadName(sender) :
               /\ mem' = IF Live(sender) THEN [mem EXCEPT ![sender].name = TruncName(p)] ELSE mem
               /\ StartBroadcast(t, "all", Renamed(old_name, p), sender, <<Reply(t, NowKnown(p))>>)
    /\ UNCHANGED <<clients_head, allocated, heap_top, hist, clock, req, env, probe>>

remove_client_nothing(target) == UNCHANGED <<clients_head, allocated, mem, probe>>

(***************************************************************************)
(* remove_client(target), lines 128-141: unlink and free the node if the   *)
(* pointer is in the list, otherwise nothing.                              *)
(***************************************************************************)
remove_client(target) ==
    IF InList(target)
    THEN /\ clients_head' = ListWithout(target)
         /\ allocated' = allocated \ {target}
         /\ mem' = [mem EXCEPT ![target] = ZeroClient]
         /\ probe' = [probe EXCEPT ![target] = NoProbe]
    ELSE UNCHANGED <<clients_head, allocated, mem, probe>>

(***************************************************************************)
(* disconn, lines 624-647.                                                 *)
(***************************************************************************)
DisconnDo(t) ==
    /\ pc[t] = "disc_do"
    /\ \E namebuf \in ReadName(loc[t].sender) :
          StartBroadcast(t, "all", Left(namebuf), NULL, <<Reply(t, Bye)>>)
    /\ remove_client(loc[t].sender)
    /\ UNCHANGED <<heap_top, hist, clock, req, env>>

(***************************************************************************)
(* kick, lines 650-694.                                                    *)
(***************************************************************************)
KickDo(t) ==
    /\ pc[t] = "kick_do"
    /\ LET target == find_client_by_name(req[t].payload)
       IN IF target = NULL
          THEN /\ Finish(t, <<Reply(t, ErrNoClient(req[t].payload))>>)
               /\ UNCHANGED <<clients_head, allocated, mem, probe>>
          ELSE /\ StartBroadcast(t, "all", Removed(mem[target].name), NULL,
                                 <<Sent(mem[target].addr, YouRemoved, "none")>>)
               /\ remove_client(target)
    /\ UNCHANGED <<heap_top, hist, clock, req, env>>

(***************************************************************************)
(* monitor_thread, lines 712-809.                                          *)
(***************************************************************************)
Sleep(t, sends) == Goto(t, "m_sleep", [NoLoc EXCEPT !.wake = clock + MONITOR_INTERVAL], sends)

\* lines 716-720: sleep(MONITOR_INTERVAL) returns; now = time(NULL)
MonWake ==
    /\ pc[Mon] = "m_sleep"
    /\ clock >= loc[Mon].wake
    /\ pc' = [pc EXCEPT ![Mon] = "m_scan"]
    /\ loc' = [loc EXCEPT ![Mon] = [NoLoc EXCEPT !.now = clock, !.oldest = clock]]
    /\ log' = [log EXCEPT ![Mon] = << >>]
    /\ UNCHANGED <<registry, hist, clock, req, env, probe>>

\* lines 723-731: the pass over the list from node i on; <= lets a later node
\* with the same last_active replace an earlier one
RECURSIVE ScanFrom(_, _, _)
ScanFrom(i, oldest, target) ==
    IF i > Len(clients_head) THEN [oldest |-> oldest, target |-> target]
    ELSE IF mem[clients_head[i]].last_active <= oldest
         THEN ScanFrom(i + 1, mem[clients_head[i]].last_active, clients_head[i])
         ELSE ScanFrom(i + 1, oldest, target)

MonScan ==
    /\ pc[Mon] = "m_scan"
    /\ LET r == ScanFrom(1, loc[Mon].now, NULL)
       IN IF r.target = NULL \/ (loc[Mon].now - r.oldest) < INACTIVITY_THRESHOLD
          THEN Sleep(Mon, << >>)
          ELSE Goto(Mon, "m_check", [loc[Mon] EXCEPT !.target = r.target, !.oldest = r.oldest], << >>)
    /\ UNCHANGED <<registry, hist, clock, req, env, probe>>

probe_always(target) == TRUE

\* line 759: no probe is outstanding for the target
probe_due(target) == mem[target].ping_sent = 0

timed_out_never(now, sent) == FALSE

\* line 777, negated: the probe has been outstanding for PING_TIMEOUT or more
timed_out(now, sent) == ~((now - sent) < PING_TIMEOUT)

\* lines 741-778: is the pointer still in the list; first probe or timeout check
MonCheck ==
    /\ pc[Mon] = "m_check"
    /\ LET target == loc[Mon].target
       IN IF ~InList(target)
          THEN /\ Sleep(Mon, << >>)
               /\ UNCHANGED <<mem, probe>>
          ELSE IF probe_due(target)
          THEN /\ mem' = [mem EXCEPT ![target].ping_sent = 1, ![target].ping_time = loc[Mon].now]
               /\ probe' = [probe EXCEPT ![target] = [to |-> mem[target].addr, at |-> loc[Mon].now,
                                                      answered |-> FALSE]]
               /\ Sleep(Mon, <<Sent(mem[target].addr, Ping, "none")>>)
          ELSE IF ~timed_out(loc[Mon].now, mem[target].ping_time)
          THEN /\ Sleep(Mon, << >>)
               /\ UNCHANGED <<mem, probe>>
          ELSE /\ Goto(Mon, "m_evict", loc[Mon], << >>)
               /\ UNCHANGED <<mem, probe>>
    /\ UNCHANGED <<clients_head, allocated, heap_top, hist, clock, req, env>>

\* lines 780-805: the pointer is used again without looking for it in the list
MonEvict ==
    /\ pc[Mon] = "m_evict"
    /\ LET target == loc[Mon].target
       IN \E active \in ReadFlag(target, 1), ping_sent \in ReadFlag(target, mem[target].ping_sent) :
             IF active = 0 \/ ping_sent = 0
             THEN /\ Sleep(Mon, << >>)
                  /\ UNCHANGED <<clients_head, allocated, mem, probe>>
             ELSE \E kicked_addr \in ReadAddr(target), removed_name \in ReadName(target) :
                  /\ StartBroadcast(Mon, "all", Inactive(removed_name), NULL,
                                    <<Sent(kicked_addr, YouInactive, "none")>>)
                  /\ remove_client(target)
    /\ UNCHANGED <<heap_top, hist, clock, req, env>>

(***************************************************************************)
(* The state after main() has opened the socket and started the monitor,   *)
(* with the datagrams the clients are going to send.                       *)
(***************************************************************************)
InitWith(scripts) ==
    /\ clients_head = << >>
    /\ mem = [n \in Nodes |-> ZeroClient]
    /\ allocated = {}
    /\ heap_top = 0
    /\ history = [i \in 0..(HISTORY_SIZE - 1) |-> Empty]
    /\ history_start = 0
    /\ history_count = 0
    /\ clock = 0
    /\ pc = [t \in Threads |-> IF t = Mon THEN "m_sleep" ELSE "done"]
    /\ req = [t \in Workers |-> NoReq]
    /\ loc = [t \in Threads |-> IF t = Mon THEN [NoLoc EXCEPT !.wake = MONITOR_INTERVAL] ELSE NoLoc]
    /\ log = [t \in Threads |-> << >>]
    /\ rounds \in scripts
    /\ round_start = {}
    /\ appended = << >>
    /\ probe = [n \in Nodes |-> NoProbe]

Env == Dispatch \/ NextRound

Identify == \E t \in Workers : Lookup(t) \/ Touch(t)

Broadcast == \E t \in Threads : BcHist(t) \/ BcSend(t)

Conn == \E t \in Workers : ConnReg(t) \/ ConnReplay(t)

Rename == \E t \in Workers : RenameDo(t)

Leave == \E t \in Workers : DisconnDo(t) \/ KickDo(t)

Cmd(a, ty, p) == Dgram(a, ty, p, Empty)

(***************************************************************************)
(* Registry scenarios: two clients connect at the same time, then two      *)
(* requests that change the registry arrive at the same time.              *)
(***************************************************************************)
RegFirst == {Cmd(A1, "conn", n) : n \in {NameA, Long63, Long64}}
RegSecond == {Cmd(A2, "conn", n) : n \in {NameA, NameB, Long64}} \cup {Cmd(A1, "conn", NameB)}
RegThird == {Cmd(A1, "rename", NameC), Cmd(A1, "rename", Long64),
             Cmd(A1, "disconn", Empty), Cmd(A1, "conn", NameB)}
RegFourth == {Cmd(A2, "rename", NameC), Cmd(A2, "rename", Long64),
              Cmd(A2, "disconn", Empty), Cmd(Admin, "kick", NameA)}

ScriptsReg == {<<<<c1, c2>>, <<d1, d2>>>> :
                  c1 \in RegFirst, c2 \in RegSecond, d1 \in RegThird, d2 \in RegFourth}

InitReg == InitWith(ScriptsReg)
NextReg == Env \/ Identify \/ Conn \/ Rename \/ Leave \/ Broadcast
SpecReg == InitReg /\ [][NextReg]_vars

(***************************************************************************)
(* History scenarios: a client connects, sends k public messages one after *)
(* the other, and then a second client connects, alone or while one more   *)
(* message is on its way.                                                  *)
(***************************************************************************)
Say == \E t \in Workers : SayFmt(t)

Numbered(k) == Str("m", k)
SaysUpTo(k) == [i \in 1..k |-> <<Cmd(A1, "say", Numbered(i))>>]
HistLast == {<<Cmd(A2, "conn", NameB)>>,
             <<Cmd(A2, "conn", NameB), Cmd(A1, "say", Numbered(MaxK + 1))>>}

ScriptsHist == {<<<<Cmd(A1, "conn", NameA)>>>> \o SaysUpTo(k) \o <<last>> :
                   k \in 0..MaxK, last \in HistLast}

InitHist == InitWith(ScriptsHist)
NextHist == Env \/ Identify \/ Conn \/ Say \/ Broadcast
SpecHist == InitHist /\ [][NextHist]_vars

(***************************************************************************)
(* Chat scenarios: clients a (at A1) and b (at A2), and in some runs c (at *)
(* A3), connect one after the other, one of them mutes or unmutes, and     *)
(* then a message is sent: alone, or while its sender or its recipient     *)
(* leaves and connects again.                                              *)
(***************************************************************************)
Sayto == \E t \in Workers : StFind(t) \/ StMuted(t) \/ StSend(t)

Mute == \E t \in Workers : MuteDo(t) \/ UnmuteDo(t)

Hi == <<"h", "i">>
Rejoin(a, n) == <<Cmd(a, "disconn", Empty), Cmd(a, "conn", n)>>

ChatTwo == <<<<Cmd(A1, "conn", NameA)>>, <<Cmd(A2, "conn", NameB)>>>>
ChatThree == ChatTwo \o <<<<Cmd(A3, "conn", NameC)>>>>
ChatMutes == {<< >>, <<<<Cmd(A1, "mute", NameB)>>>>, <<<<Cmd(A2, "mute", NameA)>>>>,
              <<<<Cmd(A1, "mute", NameB)>>, <<Cmd(A1, "unmute", NameB)>>>>}
ChatAlone == {<<Cmd(A1, "say", Hi)>>, <<Cmd(A2, "say", Hi)>>,
              <<Dgram(A1, "sayto", NameB, Hi)>>, <<Dgram(A2, "sayto", NameA, Hi)>>}
ChatRaces == {<<Cmd(A1, "say", Hi)>> \o Rejoin(A1, NameA),
              <<Cmd(A2, "say", Hi)>> \o Rejoin(A2, NameB),
              <<Dgram(A1, "sayto", NameB, Hi)>> \o Rejoin(A2, NameB),
              <<Dgram(A1, "sayto", NameB, Hi)>> \o Rejoin(A1, NameA),
              <<Dgram(A1, "sayto", NameB, Hi), Cmd(Admin, "kick", NameB), Cmd(A2, "conn", NameB)>>}

ScriptsChat ==
    {ChatTwo \o m \o <<last>> : m \in ChatMutes, last \in ChatAlone \cup ChatRaces}
    \cup {ChatThree \o m \o <<last>> : m \in ChatMutes, last \in ChatAlone}

InitChat == InitWith(ScriptsChat)
NextChat == Env \/ Identify \/ Conn \/ Say \/ Sayto \/ Mute \/ Leave \/ Broadcast
SpecChat == InitChat /\ [][NextChat]_vars

(***************************************************************************)
(* Monitor scenarios: a (at A1) connects, in some runs b (at A2) too, time *)
(* passes and the monitor runs its cycles, and at some moment nothing, a   *)
(* ping reply, a message, a departure, or a message overlapping a          *)
(* departure and a new conn arrives.                                       *)
(***************************************************************************)
Pong == \E t \in Workers : RetPing(t)

Monitor == MonWake \/ MonScan \/ MonCheck \/ MonEvict

MonFirst == {<<<<Cmd(A1, "conn", NameA)>>>>,
             <<<<Cmd(A1, "conn", NameA)>>, <<Cmd(A2, "conn", NameB)>>>>}
MonLater == {<< >>,
             <<<<Cmd(A1, "ret-ping", Empty)>>>>,
             <<<<Cmd(A1, "say", Hi)>>>>,
             <<<<Cmd(A1, "disconn", Empty)>>>>,
             <<<<Cmd(Admin, "kick", NameA)>>>>}

ScriptsMon == {first \o later : first \in MonFirst, later \in MonLater}

InitMon == InitWith(ScriptsMon)
NextMon == Env \/ Tick \/ Identify \/ Pong \/ Conn \/ Say \/ Leave \/ Broadcast \/ Monitor
SpecMon == InitMon /\ [][NextMon]_vars

(***************************************************************************)
(* The same with a client that sends a request, leaves and connects again  *)
(* while the handler of that first request has looked its sender up and    *)
(* not yet gone on.                                                        *)
(***************************************************************************)
Disconn == \E t \in Workers : DisconnDo(t)

\* the next batch is sent while handlers may still stand before line 366
NextRoundEarly ==
    /\ rounds # << >>
    /\ Head(rounds) = << >>
    /\ \A t \in Workers : Idle(t) \/ pc[t] = "touch"
    /\ rounds' = Tail(rounds)
    /\ round_start' = Registered
    /\ req' = [t \in Workers |-> IF Idle(t) THEN NoReq ELSE req[t]]
    /\ log' = [t \in Threads |-> IF t \in Workers /\ Idle(t) THEN << >> ELSE log[t]]
    /\ UNCHANGED <<registry, hist, clock, pc, loc, probe>>

\* the client sends all of this within the first second
TickAfter == rounds = << >> /\ Tick

ScriptsStale == {<<<<Cmd(A1, "conn", NameA)>>, <<Cmd(A1, "noop", Empty)>>,
                   <<Cmd(A1, "disconn", Empty)>>, <<Cmd(A1, "conn", NameA)>>>>}

InitStale == InitWith(ScriptsStale)
NextStale == Dispatch \/ NextRoundEarly \/ TickAfter \/ Identify \/ Conn \/ Disconn \/ Broadcast \/ Monitor
SpecStale == InitStale /\ [][NextStale]_vars

(***************************************************************************)
(* Liveness scenarios: a (at A1) and in some runs b (at A2) connect, and   *)
(* later one more datagram arrives, or none: a datagram without '$', an    *)
(* unknown command, a ping reply, a message.  Clients send only during the *)
(* first TrafficUntil seconds.  A handler returns, and the monitor runs    *)
(* the cycle that is due, before the clock moves on: a second passes only  *)
(* while every handler has returned and the monitor sleeps.                *)
(***************************************************************************)
Proto == \E t \in Workers : Malformed(t)

LiveDispatch == clock <= TrafficUntil /\ Dispatch

LiveTick ==
    /\ \A t \in Workers : Idle(t)
    /\ pc[Mon] = "m_sleep" /\ clock < loc[Mon].wake
    /\ clock + TickStep <= LiveUntil
    /\ clock' = clock + TickStep
    /\ UNCHANGED <<registry, hist, pc, req, loc, log, env, probe>>

LiveFirst == {<<<<Cmd(A1, "conn", NameA)>>>>,
              <<<<Cmd(A1, "conn", NameA)>>, <<Cmd(A2, "conn", NameB)>>>>,
              <<<<Cmd(A2, "conn", NameB)>>, <<Cmd(A1, "conn", NameA)>>>>}
LiveLater == {<< >>,
              <<<<Cmd(A1, "malformed", Empty)>>>>,
              <<<<Cmd(A1, "noop", Empty)>>>>,
              <<<<Cmd(A1, "ret-ping", Empty)>>>>,
              <<<<Cmd(A2, "ret-ping", Empty)>>>>,
              <<<<Cmd(A2, "say", Hi)>>>>}

ScriptsLive == {first \o later : first \in LiveFirst, later \in LiveLater}

Handlers == Proto \/ Identify \/ Pong \/ Conn \/ Say \/ Broadcast

InitLive == InitWith(ScriptsLive)
NextLive == LiveDispatch \/ NextRound \/ LiveTick \/ Handlers \/ Monitor
SpecLive == InitLive /\ [][NextLive]_vars

\* threads that can run do run, and time passes; clients need not send
SpecLiveFair ==
    /\ SpecLive
    /\ WF_vars(Handlers) /\ WF_vars(Monitor) /\ WF_vars(LiveTick)

(***************************************************************************)
(* Command scenarios: a (at A1) and b (at A2), in some runs c (at A3) too, *)
(* connect one after the other; then requests arrive one at a time, each   *)
(* after the handler of the one before has returned, or a few of them at   *)
(* the same time.                                                          *)
(***************************************************************************)
One(d) == <<<<d>>>>
CmdOne == <<<<Cmd(A1, "conn", NameA)>>>>

\* kick from a port that is not the admin port, the sender registered or not
CmdKickForbidden ==
    {ChatTwo \o One(Cmd(a, "kick", p)) : a \in {A1, A3}, p \in {NameA, NameB, NameC, Empty}}

\* kick from the admin port: alone, while the kicked client connects again,
\* while another client leaves
CmdKick ==
    {ChatTwo \o One(Cmd(Admin, "kick", NameA)),
     ChatThree \o One(Cmd(Admin, "kick", NameB)),
     ChatTwo \o <<<<Cmd(Admin, "kick", NameB), Cmd(A2, "conn", NameB)>>>>,
     ChatThree \o <<<<Cmd(Admin, "kick", NameB), Cmd(A3, "disconn", Empty)>>>>}

\* requests the server refuses
Refused ==
    {Cmd(A1, "conn", Empty), Cmd(A1, "conn", NameB), Cmd(A3, "conn", NameA),
     Cmd(A1, "rename", NameB), Cmd(A1, "rename", Empty), Cmd(A3, "rename", NameC),
     Cmd(A1, "mute", Empty), Cmd(A3, "mute", NameB),
     Cmd(A1, "unmute", NameB), Cmd(A1, "unmute", Empty), Cmd(A3, "unmute", NameB),
     Dgram(A1, "sayto", NameC, Hi), Dgram(A1, "sayto", NameB, Empty),
     Dgram(A3, "sayto", NameB, Hi), Cmd(A3, "say", Hi),
     Cmd(Admin, "kick", NameC), Cmd(Admin, "kick", Empty)}

\* a has muted b; then a request is refused, or two requests meet
CmdRefused ==
    {ChatTwo \o One(Cmd(A1, "mute", NameB)) \o One(d) : d \in Refused}
    \cup {ChatTwo \o One(Cmd(A1, "mute", NameB)) \o One(Cmd(A1, "unmute", NameC))}
    \cup {ChatTwo \o <<<<d, Cmd(A1, "disconn", Empty)>>>> :
             d \in {Cmd(A1, "mute", NameB), Cmd(A1, "unmute", NameB), Cmd(A1, "rename", NameC)}}
    \cup {ChatTwo \o <<<<Cmd(A1, "rename", NameC), Cmd(A2, "rename", NameC)>>>>}

\* requests the server carries out
CmdAccepted ==
    {ChatTwo \o One(d) : d \in {Cmd(A1, "say", Hi), Dgram(A1, "sayto", NameB, Hi),
                                 Cmd(A1, "rename", NameC)}}

\* c connects after something was said; b connects, leaves and connects again
CmdConn ==
    {ChatTwo \o One(Cmd(A1, "say", Hi)) \o One(Cmd(A3, "conn", NameC)),
     CmdOne \o <<<<Cmd(A2, "conn", NameB)>> \o Rejoin(A2, NameB)>>}

\* a, registered and with b in its mute list, connects again
CmdReconn ==
    {ChatTwo \o One(Cmd(A1, "mute", NameB)) \o One(Cmd(A1, "conn", p)) :
        p \in {NameC, NameA, Long64}}
    \cup {CmdOne \o One(Cmd(A2, "conn", Long63)) \o One(Cmd(A1, "conn", Long64))}

\* disconn from an address that never registered or has left already; two
\* disconn datagrams of a at the same time, in some runs while c connects
CmdDisconn ==
    {ChatTwo \o One(Cmd(A3, "disconn", Empty)),
     ChatTwo \o One(Cmd(A1, "disconn", Empty)) \o One(Cmd(A1, "disconn", Empty)),
     ChatTwo \o <<<<Cmd(A1, "disconn", Empty), Cmd(A1, "disconn", Empty)>>>>,
     ChatTwo \o <<<<Cmd(A1, "disconn", Empty), Cmd(A1, "disconn", Empty),
                    Cmd(A3, "conn", NameC)>>>>}

\* MAX_MUTE distinct names of at most 32 characters
MuteName(k) == IF 2 * k <= MAX_MUTE THEN Str("p", k) ELSE Str("q", k - (MAX_MUTE \div 2))
MuteAll == [k \in 1..MAX_MUTE |-> <<Cmd(A1, "mute", MuteName(k))>>]
Each(ds) == [i \in 1..Len(ds) |-> <<ds[i]>>]

\* a mutes and unmutes: three names and the middle one unmuted three times;
\* a name twice; a name of 64 characters twice and then unmuted; MAX_MUTE
\* names, then a new one, then one of the list again
CmdMute ==
    {ChatTwo \o Each(<<Cmd(A1, "mute", NameB), Cmd(A1, "mute", NameC), Cmd(A1, "mute", Hi),
                       Cmd(A1, "unmute", NameC), Cmd(A1, "unmute", NameC),
                       Cmd(A1, "unmute", NameC)>>),
     ChatTwo \o Each(<<Cmd(A1, "mute", NameB), Cmd(A1, "mute", NameB)>>),
     ChatTwo \o Each(<<Cmd(A1, "mute", Long64), Cmd(A1, "mute", Long64),
                       Cmd(A1, "unmute", Long63)>>),
     ChatTwo \o MuteAll \o Each(<<Cmd(A1, "mute", NameC), Cmd(A1, "mute", MuteName(1))>>)}

\* say from an address that never registered, with or without text; say
\* without text from a, alone and while a leaves
CmdSay ==
    {ChatTwo \o One(d) : d \in {Cmd(A3, "say", Hi), Cmd(A3, "say", Empty), Cmd(A1, "say", Empty)}}
    \cup {ChatTwo \o <<<<Cmd(A1, "say", Empty), Cmd(A1, "disconn", Empty)>>>>}

\* a has muted b; then a datagram without '$' or with an unknown command
\* arrives from a or from an address that is not registered; an unknown
\* command of a while a leaves and c connects
CmdProto ==
    {ChatTwo \o One(Cmd(A1, "mute", NameB)) \o One(Cmd(a, ty, Empty)) :
        a \in {A1, A3}, ty \in {"malformed", "noop"}}
    \cup {ChatTwo \o <<<<Cmd(A1, "noop", Empty), Cmd(A1, "disconn", Empty),
                          Cmd(A3, "conn", NameC)>>>>}

\* a message of a while a renames itself, in some runs after b has muted
\* a; a private message to b while b renames itself
CmdWhileRenamed ==
    {ChatTwo \o <<<<Cmd(A1, "say", Hi), Cmd(A1, "rename", NameC)>>>>,
     ChatTwo \o One(Cmd(A2, "mute", NameA))
             \o <<<<Cmd(A1, "say", Hi), Cmd(A1, "rename", NameC)>>>>,
     ChatTwo \o <<<<Dgram(A1, "sayto", NameB, Hi), Cmd(A2, "rename", NameC)>>>>}

\* b mutes the name a; a says something and renames itself to c; another
\* client registers as a; then both say something
CmdMutedName ==
    {ChatTwo \o Each(<<Cmd(A2, "mute", NameA), Cmd(A1, "say", Hi), Cmd(A1, "rename", NameC),
                       Cmd(A3, "conn", NameA)>>)
             \o <<<<Cmd(A1, "say", Hi), Cmd(A3, "say", Hi)>>>>}

ScriptsCmd == CmdKickForbidden \cup CmdKick \cup CmdRefused \cup CmdAccepted \cup CmdConn
              \cup CmdReconn \cup CmdDisconn \cup CmdMute \cup CmdSay \cup CmdProto
              \cup CmdWhileRenamed \cup CmdMutedName

InitCmd == InitWith(ScriptsCmd)
NextCmd == Env \/ Proto \/ Identify \/ Conn \/ Say \/ Sayto \/ Mute \/ Rename \/ Leave \/ Broadcast
SpecCmd == InitCmd /\ [][NextCmd]_vars

(***************************************************************************)
(* What can be said of a batch once all its handlers have returned.        *)
(***************************************************************************)
RoundOver == rounds # << >> /\ Head(rounds) = << >> /\ \A t \in Workers : Idle(t)

\* handler t wrote line m to the address its datagram came from
Got(t, m) == \E i \in 1..Len(log[t]) : sockaddrs_equal(log[t][i].to, req[t].addr) /\ log[t][i].msg = m

\* handler t wrote line m to address a
Wrote(t, a, m) == \E i \in 1..Len(log[t]) : sockaddrs_equal(log[t][i].to, a) /\ log[t][i].msg = m

IsRegistered(a) == find_client_by_addr(a) # NULL
WasRegistered(a) == \E r \in round_start : sockaddrs_equal(r.addr, a)
NameWas(a) == (CHOOSE r \in round_start : sockaddrs_equal(r.addr, a)).name
\* at the start of the batch nobody held the requested name, cut or not
HeldByNobody(p) == \A r \in round_start : r.name # p /\ r.name # TruncName(p)
OnlyRequests(t, u) == \A v \in Workers \ {t, u} : req[v] = NoReq

(***************************************************************************)
(* C1  No two registered clients have the same name, in any reachable      *)
(* state of the registry.                                                  *)
(***************************************************************************)
NamesUnique ==
    \A i, j \in 1..Len(clients_head) :
        i # j => mem[clients_head[i]].name # mem[clients_head[j]].name

\* conn with a 63-character name, then conn with the same name plus one character
C1_TwoHoldersOfOneName ==
    /\ Len(clients_head) = 2
    /\ mem[clients_head[1]].name = Long63
    /\ mem[clients_head[2]].name = Long63
    /\ ~sockaddrs_equal(mem[clients_head[1]].addr, mem[clients_head[2]].addr)

(***************************************************************************)
(* C2  Two conn requests with the same name, from two distinct addresses   *)
(* that were not registered, handled concurrently: exactly one gets the    *)
(* welcome and is registered, the other gets the name-in-use error and is  *)
(* not registered.                                                         *)
(***************************************************************************)
ConnRace(t, u) ==
    /\ t # u /\ OnlyRequests(t, u)
    /\ req[t].type = "conn" /\ req[u].type = "conn"
    /\ req[t].payload = req[u].payload /\ req[t].payload # Empty
    /\ ~sockaddrs_equal(req[t].addr, req[u].addr)
    /\ ~WasRegistered(req[t].addr) /\ ~WasRegistered(req[u].addr)
    /\ HeldByNobody(req[t].payload)

ConnWon(t) ==
    /\ Got(t, Welcome(req[t].payload)) /\ ~Got(t, ErrInUse(req[t].payload))
    /\ IsRegistered(req[t].addr)

ConnLost(t) ==
    /\ Got(t, ErrInUse(req[t].payload)) /\ ~Got(t, Welcome(req[t].payload))
    /\ ~IsRegistered(req[t].addr)

C2_ExactlyOneConnSucceeds ==
    \A t, u \in Workers :
        (RoundOver /\ ConnRace(t, u)) =>
            \/ ConnWon(t) /\ ConnLost(u)
            \/ ConnWon(u) /\ ConnLost(t)

\* the race as the claim describes it has been run, with a short name
C2_RaceRun ==
    \E t, u \in Workers :
        /\ RoundOver /\ ConnRace(t, u) /\ req[t].payload = NameA
        /\ ConnWon(t) /\ ConnLost(u)

(***************************************************************************)
(* C3  Two registered clients rename to the same new name, held by nobody, *)
(* at the same time: exactly one rename succeeds and is announced, the     *)
(* other client gets the name-in-use error and keeps its old name, and no  *)
(* two clients hold that name.                                             *)
(***************************************************************************)
RenameRace(t, u) ==
    /\ t # u /\ OnlyRequests(t, u)
    /\ req[t].type = "rename" /\ req[u].type = "rename"
    /\ req[t].payload = req[u].payload /\ req[t].payload # Empty
    /\ ~sockaddrs_equal(req[t].addr, req[u].addr)
    /\ WasRegistered(req[t].addr) /\ WasRegistered(req[u].addr)
    /\ HeldByNobody(req[t].payload)

RenameWon(t, other) ==
    /\ Got(t, NowKnown(req[t].payload)) /\ ~Got(t, ErrInUse(req[t].payload))
    /\ Wrote(t, other, Renamed(NameWas(req[t].addr), req[t].payload))
    /\ mem[find_client_by_addr(req[t].addr)].name = TruncName(req[t].payload)

RenameLost(t) ==
    /\ Got(t, ErrInUse(req[t].payload)) /\ ~Got(t, NowKnown(req[t].payload))
    /\ mem[find_client_by_addr(req[t].addr)].name = NameWas(req[t].addr)

C3_ExactlyOneRenameSucceeds ==
    \A t, u \in Workers :
        (RoundOver /\ RenameRace(t, u)) =>
            /\ NamesUnique
            /\ \/ RenameWon(t, req[u].addr) /\ RenameLost(u)
               \/ RenameWon(u, req[t].addr) /\ RenameLost(t)

C3_RaceRun ==
    \E t, u \in Workers :
        /\ RoundOver /\ RenameRace(t, u) /\ req[t].payload = NameC
        /\ NameWas(req[t].addr) = NameA /\ NameWas(req[u].addr) = NameB
        /\ RenameWon(t, req[u].addr) /\ RenameLost(u)

(***************************************************************************)
(* C4  The registry holds at most one entry per address (IP and port), in  *)
(* every reachable state, also when conn requests with different names     *)
(* from one address are handled at the same time.                          *)
(***************************************************************************)
AddrUnique ==
    \A i, j \in 1..Len(clients_head) :
        i # j => ~sockaddrs_equal(mem[clients_head[i]].addr, mem[clients_head[j]].addr)

\* two conn requests from one address, different names, both welcomed: one entry
C4_SameAddrConnsDone ==
    \E t, u \in Workers :
        /\ RoundOver /\ t # u
        /\ req[t].type = "conn" /\ req[u].type = "conn"
        /\ sockaddrs_equal(req[t].addr, req[u].addr)
        /\ req[t].payload # req[u].payload
        /\ ~WasRegistered(req[t].addr)
        /\ Got(t, Welcome(req[t].payload)) /\ Got(u, Welcome(req[u].payload))
        /\ Len(clients_head) = 1

(***************************************************************************)
(* C5  The replay a connecting client is sent is the last                  *)
(* min(K, HISTORY_SIZE) of the K lines broadcast so far, in the order in   *)
(* which they were appended, each behind the history marker: never more    *)
(* than HISTORY_SIZE lines, never reordered.                               *)
(***************************************************************************)
LastAppended(n) == SubSeq(appended, Len(appended) - n + 1, Len(appended))

ExpectedReplay(a) ==
    LET n == IF Len(appended) < HISTORY_SIZE THEN Len(appended) ELSE HISTORY_SIZE
    IN [i \in 1..n |-> Sent(a, HistoryWrap(LastAppended(n)[i]), "history_lock")]

\* the step in which handler t replays the history
Replays(t) == pc[t] = "conn_hist" /\ pc'[t] = "bc_hist"

NewLog(t) == SubSeq(log'[t], Len(log[t]) + 1, Len(log'[t]))
Entry(a) == find_client_by_addr(a)
\* registered client n has the name of registered client m in its mute list
HasMuted(n, m) == recipient_has_muted_sender(n, mem[m].name)
Others(n) == Range(clients_head) \ {n}

\* the step in which handler t of a say delivers the line
SayDelivers(t) == pc[t] = "bc_send" /\ loc[t].mode = "from" /\ pc'[t] = "done"
\* the step in which handler t of a sayto sends its lines
SaytoAnswers(t) == pc[t] = "st_send" /\ pc'[t] = "done"

(***************************************************************************)
(* C6  A say from a registered client S is delivered to exactly the        *)
(* registered clients other than S whose mute list does not contain S's    *)
(* name, once to each.                                                     *)
(***************************************************************************)
SayReaches(t) == {NewLog(t)[i].to : i \in 1..Len(NewLog(t))}

C6_SayToExactlyNonMutingOthers ==
    [][\A t \in Workers :
          (SayDelivers(t) /\ IsRegistered(req[t].addr)) =>
             LET s == Entry(req[t].addr)
                 due == {n \in Others(s) : ~HasMuted(n, s)}
             IN /\ SayReaches(t) = {mem[n].addr : n \in due}
                /\ Len(NewLog(t)) = Cardinality(due)]_vars

\* b, muted by a and not by c, has said something: c got it, a did not
C6_SaidPastAMute ==
    \E t \in Workers :
        /\ RoundOver /\ req[t].type = "say" /\ OnlyRequests(t, t)
        /\ sockaddrs_equal(req[t].addr, A2) /\ Len(clients_head) = 3
        /\ HasMuted(Entry(A1), Entry(A2)) /\ ~HasMuted(Entry(A3), Entry(A2))
        /\ Wrote(t, A3, ChatLine(NameB, Hi)) /\ ~Wrote(t, A1, ChatLine(NameB, Hi))
        /\ Len(log[t]) = 1

(***************************************************************************)
(* C7  Muting is not symmetric: when A has muted B and B has not muted A,  *)
(* a say from A is still delivered to B, and a sayto from A to B is still  *)
(* delivered to B.                                                         *)
(***************************************************************************)
OneWayMute(a, b) == a # b /\ HasMuted(a, b) /\ ~HasMuted(b, a)

C7_MuteIsOneWay ==
    [][\A t \in Workers :
          /\ (SayDelivers(t) /\ IsRegistered(req[t].addr)) =>
                LET a == Entry(req[t].addr)
                IN \A b \in Others(a) :
                      OneWayMute(a, b) =>
                         \E i \in 1..Len(NewLog(t)) :
                            sockaddrs_equal(NewLog(t)[i].to, mem[b].addr)
          /\ (/\ SaytoAnswers(t) /\ IsRegistered(req[t].addr)
              /\ find_client_by_name(req[t].payload) # NULL) =>
                LET a == Entry(req[t].addr)
                    b == find_client_by_name(req[t].payload)
                IN OneWayMute(a, b) =>
                      \E i \in 1..Len(NewLog(t)) :
                         /\ sockaddrs_equal(NewLog(t)[i].to, mem[b].addr)
                         /\ NewLog(t)[i].msg = PrivLine(mem[a].name, req[t].rest)]_vars

\* a, who has muted b, has sent b a private message, and b got it
C7_SaytoPastOwnMute ==
    \E t \in Workers :
        /\ RoundOver /\ req[t].type = "sayto" /\ OnlyRequests(t, t)
        /\ sockaddrs_equal(req[t].addr, A1) /\ req[t].payload = NameB
        /\ IsRegistered(A1) /\ IsRegistered(A2)
        /\ OneWayMute(Entry(A1), Entry(A2))
        /\ Wrote(t, A2, PrivLine(NameA, Hi)) /\ Got(t, Ack(NameB))

(***************************************************************************)
(* C8  A sayto from registered client A to B while B's mute list contains  *)
(* A's name: B is not sent the private message, and A is sent the blocked  *)
(* notice naming B and nothing else.                                       *)
(***************************************************************************)
C8_MutedSaytoIsBlocked ==
    [][\A t \in Workers :
          (/\ SaytoAnswers(t) /\ IsRegistered(req[t].addr)
           /\ find_client_by_name(req[t].payload) # NULL) =>
             LET a == Entry(req[t].addr)
                 b == find_client_by_name(req[t].payload)
             IN HasMuted(b, a) => NewLog(t) = <<Reply(t, Blocked(mem[b].name))>>]_vars

\* a sayto to someone who has muted the sender has been answered by the notice
C8_BlockedNoticeSent ==
    \E t \in Workers :
        /\ RoundOver /\ req[t].type = "sayto" /\ OnlyRequests(t, t)
        /\ sockaddrs_equal(req[t].addr, A1) /\ req[t].payload = NameB
        /\ IsRegistered(A1) /\ IsRegistered(A2)
        /\ HasMuted(Entry(A2), Entry(A1))
        /\ log[t] = <<Reply(t, Blocked(NameB))>>

(***************************************************************************)
(* Steps of the monitor.                                                   *)
(***************************************************************************)
\* the monitor's removal step takes record n out of the registry
MonRemoves(n) ==
    /\ pc[Mon] = "m_evict" /\ pc'[Mon] # "m_evict"
    /\ n \in Range(clients_head) /\ n \notin Range(clients_head')

\* a cycle ends without a removal
CycleEnds == pc[Mon] \in {"m_scan", "m_check", "m_evict"} /\ pc'[Mon] = "m_sleep"

\* the lines of the cycle that are probes to address a
ProbesTo(a) == {i \in 1..Len(log'[Mon]) : log'[Mon][i] = Sent(a, Ping, "none")}

\* when record n is removed it alone leaves the list, its address gets the
\* notice, and the announcement to come names it
EvictStep ==
    \A n \in Nodes :
        MonRemoves(n) =>
            /\ clients_head' = ListWithout(n)
            /\ NewLog(Mon) = <<Sent(mem[n].addr, YouInactive, "none")>>
            /\ loc'[Mon].msg = Inactive(mem[n].name)

\* the monitor's announcement goes once to every client registered then
AnnounceStep ==
    (pc[Mon] = "bc_send" /\ pc'[Mon] = "m_sleep") =>
        /\ Len(NewLog(Mon)) = Len(clients_head)
        /\ \A n \in Range(clients_head) :
              Cardinality({i \in 1..Len(NewLog(Mon)) :
                              NewLog(Mon)[i] = Sent(mem[n].addr, loc[Mon].msg, "clients_lock")}) = 1

(***************************************************************************)
(* C9, as claimed  A client that has been idle longer than the threshold   *)
(* gets exactly one probe in every monitor cycle until it responds or the  *)
(* probe timeout has passed; then it is removed once and every remaining   *)
(* client gets exactly one eviction notice.                                *)
(***************************************************************************)
IdleUnanswered(n) ==
    /\ loc[Mon].now - mem[n].last_active > INACTIVITY_THRESHOLD
    /\ mem[n].ping_sent = 0 \/ loc[Mon].now - mem[n].ping_time < PING_TIMEOUT

C9_ProbeInEveryCycle ==
    [][/\ CycleEnds =>
            \A n \in Range(clients_head) :
                IdleUnanswered(n) => Cardinality(ProbesTo(mem[n].addr)) = 1
       /\ EvictStep
       /\ AnnounceStep]_vars

(***************************************************************************)
(* C9, amended  A cycle of the monitor sends at most one probe: to the     *)
(* least recently active client, if its idle time at the scan has reached  *)
(* the threshold and no probe is outstanding for it.  While a probe is     *)
(* outstanding the client is sent nothing.  When the monitor removes the   *)
(* client, exactly its entry leaves the registry, its address is sent one  *)
(* notice, and every client registered when the announcement is made is    *)
(* sent the eviction notice exactly once.                                  *)
(***************************************************************************)
ProbeStep ==
    (pc[Mon] = "m_check" /\ pc'[Mon] # "m_check") =>
        LET n == loc[Mon].target
        IN IF InList(n) /\ mem[n].ping_sent = 0
           THEN /\ NewLog(Mon) = <<Sent(mem[n].addr, Ping, "none")>>
                /\ log[Mon] = << >>
                /\ loc[Mon].now - loc[Mon].oldest >= INACTIVITY_THRESHOLD
           ELSE NewLog(Mon) = << >>

C9_OneProbeThenOneEviction ==
    [][ProbeStep /\ EvictStep /\ AnnounceStep]_vars

\* a was probed once, stayed silent, was removed, and b was told once
C9_EvictedAndAnnounced ==
    /\ pc[Mon] = "m_sleep" /\ clock >= INACTIVITY_THRESHOLD + PING_TIMEOUT
    /\ ~IsRegistered(A1) /\ IsRegistered(A2)
    /\ log[Mon] = <<Sent(A1, YouInactive, "none"),
                    Sent(A2, Inactive(NameA), "clients_lock")>>

(***************************************************************************)
(* C10  The monitor removes a client only if a probe was sent to it, at    *)
(* least PING_TIMEOUT has passed since the probe was marked (by the        *)
(* monitor's own readings of the time), and no request from that client    *)
(* has been processed since the probe was marked.                          *)
(***************************************************************************)
C10_RemovedOnlyAfterUnansweredProbe ==
    [][\A n \in Nodes :
          MonRemoves(n) =>
             /\ probe[n] # NoProbe
             /\ sockaddrs_equal(probe[n].to, mem[n].addr)
             /\ loc[Mon].now - probe[n].at >= PING_TIMEOUT
             /\ ~probe[n].answered]_vars

\* a has been probed, has stayed silent and has been removed by the monitor
C10_SilentClientRemoved ==
    /\ pc[Mon] = "bc_hist" /\ loc[Mon].msg = Inactive(NameA)
    /\ ~IsRegistered(A1)
    /\ log[Mon] = <<Sent(A1, YouInactive, "none")>>
    /\ \A t \in Workers : Idle(t)

(***************************************************************************)
(* C11  Any request from a registered address, whatever its command,       *)
(* unknown commands and datagrams without '$' included, sets that client's *)
(* last-active time to the current time and clears its outstanding probe   *)
(* before the command is acted on.                                         *)
(***************************************************************************)
\* handler t is at lines 329-373, before the branch on the command
BeforeCommand(t) == pc[t] \in {"malformed", "lookup", "touch"}

C11_EveryRequestRefreshesSender ==
    [][\A t \in Workers :
          (BeforeCommand(t) /\ ~BeforeCommand(t)' /\ IsRegistered(req[t].addr)) =>
             LET n == Entry(req[t].addr)
             IN mem'[n].last_active = clock /\ mem'[n].ping_sent = 0]_vars

\* a was probed and then sent an unknown command: the probe is cleared
C11_UnknownCommandClearedProbe ==
    \E t \in Workers :
        /\ Idle(t) /\ req[t] = Cmd(A1, "noop", Empty) /\ log[t] = <<Reply(t, ErrUnknown("noop"))>>
        /\ IsRegistered(A1)
        /\ probe[Entry(A1)].answered /\ probe[Entry(A1)].at = clock
        /\ mem[Entry(A1)].ping_sent = 0 /\ mem[Entry(A1)].last_active = clock

(***************************************************************************)
(* C12  Under fair scheduling of the monitor, a registered client that     *)
(* sends no further traffic is eventually probed and eventually removed    *)
(* from the registry, whatever the other clients do.                       *)
(***************************************************************************)
\* a datagram from address a is still to be sent or is being handled
Pending(a) ==
    \/ \E i \in 1..Len(rounds) : \E j \in 1..Len(rounds[i]) : sockaddrs_equal(rounds[i][j].addr, a)
    \/ \E t \in Workers : ~Idle(t) /\ sockaddrs_equal(req[t].addr, a)

Silent(a) == IsRegistered(a) /\ ~Pending(a)
ProbeOut(a) == IsRegistered(a) /\ mem[Entry(a)].ping_sent = 1

StepOf(t) == ~Idle(t) /\ pc'[t] # pc[t]
\* the step is the last one of handler t
Returns(t) == StepOf(t) /\ pc'[t] = "done"
\* no entry enters or leaves the registry, no name and no mute list changes
SameClients ==
    /\ clients_head' = clients_head /\ allocated' = allocated
    /\ \A n \in Nodes : mem'[n].name = mem[n].name /\ mem'[n].addr = mem[n].addr
                          /\ mem'[n].muted = mem[n].muted

(***************************************************************************)
(* C13  A kick request from a source port other than the admin port 6666   *)
(* never removes a client and sends nothing but the forbidden error to the *)
(* requester, whatever its payload.                                        *)
(***************************************************************************)
NonAdminKick(t) == req[t].type = "kick" /\ req[t].addr.port # ADMIN_PORT

C13_NonAdminKickOnlyForbidden ==
    [][\A t \in Workers :
          (StepOf(t) /\ NonAdminKick(t)) =>
             /\ SameClients
             /\ UNCHANGED hist
             /\ pc'[t] \notin {"kick_do", "bc_hist", "bc_send"}
             /\ log'[t] = IF pc'[t] = "done" THEN <<Reply(t, ErrAdminOnly)>> ELSE << >>]_vars

\* registered a, from its client port, has asked to kick b: b is still there
C13_ForbiddenKickAnswered ==
    \E t \in Workers :
        /\ Idle(t) /\ req[t] = Cmd(A1, "kick", NameB)
        /\ log[t] = <<Reply(t, ErrAdminOnly)>>
        /\ IsRegistered(A1) /\ IsRegistered(A2) /\ mem[Entry(A2)].name = NameB
        /\ Len(clients_head) = 2

(***************************************************************************)
(* Steps of a kick from the admin port that names a registered client.     *)
(***************************************************************************)
Kicks(t) == StepOf(t) /\ pc[t] = "kick_do" /\ find_client_by_name(req[t].payload) # NULL
KickAnnounces(t) == Returns(t) /\ pc[t] = "bc_send" /\ req[t].type = "kick"
\* the address the removal notice of handler t went to
KickedAddr(t) == log[t][1].to
\* the addresses handler t writes to in this step
WritesTo(t) == {NewLog(t)[i].to : i \in 1..Len(NewLog(t))}

\* exactly the named entry leaves, and its address is sent the notice
KickStep(t) ==
    Kicks(t) =>
        LET target == find_client_by_name(req[t].payload)
        IN /\ clients_head' = ListWithout(target)
           /\ target \notin allocated'
           /\ NewLog(t) = <<Sent(mem[target].addr, YouRemoved, "none")>>
           /\ loc'[t].msg = Removed(mem[target].name)

\* the announcement goes once to every client registered when it is made
KickAnnounceStep(t) ==
    KickAnnounces(t) =>
        /\ Len(NewLog(t)) = Len(clients_head)
        /\ \A n \in Range(clients_head) :
              \E i \in 1..Len(NewLog(t)) :
                 NewLog(t)[i] = Sent(mem[n].addr, loc[t].msg, "clients_lock")

Refusals(t) ==
    LET p == req[t].payload
    IN CASE req[t].type = "conn" -> {ErrEmptyName, ErrInUse(p), ErrFull}
         [] req[t].type = "rename" -> {ErrMustConn("renaming"), ErrRenameEmpty, ErrInUse(p)}
         [] req[t].type = "mute" -> {ErrMustConn("muting users"), ErrNeedName("mute"), ErrMute(p)}
         [] req[t].type = "unmute" -> {ErrMustConn("unmuting users"), ErrNeedName("unmute"),
                                       ErrNotMuted(p)}
         [] req[t].type = "sayto" -> {ErrMustConn("sending messages"), ErrSaytoArgs,
                                      ErrNoRecipient(p)}
         [] req[t].type = "kick" -> {ErrAdminOnly, ErrNeedName("kick"), ErrNoClient(p)}
         [] OTHER -> {}

\* the step in which handler t refuses
Refuses(t) == Returns(t) /\ \E m \in Refusals(t) : NewLog(t) = <<Reply(t, m)>>

\* where a handler stands when it has done nothing yet but identify its sender
CommandLabels == {"conn_reg", "st_find", "mute_do", "unmute_do", "rename_do", "kick_do"}

C15_RefusedRequestChangesNothing ==
    [][\A t \in Workers :
          /\ (StepOf(t) /\ BeforeCommand(t)) =>
                (SameClients /\ UNCHANGED hist /\ (pc'[t] \in CommandLabels => log'[t] = << >>))
          /\ Refuses(t) =>
                /\ BeforeCommand(t) \/ pc[t] \in CommandLabels
                /\ SameClients /\ UNCHANGED hist
                /\ log[t] = << >>]_vars

\* a, who has muted b, asked for b's name and was refused: a is still a
C15_RenameRefused ==
    \E t \in Workers :
        /\ Idle(t) /\ req[t] = Cmd(A1, "rename", NameB) /\ OnlyRequests(t, t)
        /\ log[t] = <<Reply(t, ErrInUse(NameB))>>
        /\ Len(clients_head) = 2 /\ mem[Entry(A1)].name = NameA /\ mem[Entry(A2)].name = NameB
        /\ mem[Entry(A1)].muted = <<NameB>>
        /\ appended = <<Joined(NameA), Joined(NameB)>>

(***************************************************************************)
(* C16  On a successful conn the handler sends the welcome, then every     *)
(* retained history line, and only then delivers the join announcement to  *)
(* the other clients; the connecting client is not sent its own join       *)
(* announcement, and the replay of that conn does not contain it.          *)
(***************************************************************************)
ConnWelcomes(t) == StepOf(t) /\ pc[t] = "conn_reg" /\ pc'[t] = "conn_hist"
ConnAnnounces(t) == Returns(t) /\ pc[t] = "bc_send" /\ req[t].type = "conn"
\* the registered clients at another address than handler t's
OtherAddrs(t) ==
    {mem[n].addr : n \in {k \in Range(clients_head) : ~sockaddrs_equal(mem[k].addr, req[t].addr)}}

C16_WelcomeReplayThenJoinToOthers ==
    [][\A t \in Workers :
          /\ ConnWelcomes(t) =>
                (log[t] = << >> /\ NewLog(t) = <<Reply(t, Welcome(req[t].payload))>>)
          /\ Replays(t) =>
                /\ Len(log[t]) = 1
                /\ NewLog(t) = ExpectedReplay(req[t].addr)
                /\ UNCHANGED hist
                /\ loc'[t].msg = Joined(req[t].payload)
          /\ ConnAnnounces(t) =>
                /\ WritesTo(t) = OtherAddrs(t)
                /\ Len(NewLog(t)) = Cardinality(OtherAddrs(t))
                /\ \A i \in 1..Len(NewLog(t)) : NewLog(t)[i].msg = Joined(req[t].payload)]_vars

\* c has connected after a said hi: welcome, three history lines, then the
\* announcement to b and a
C16_ConnectedAfterTalk ==
    \E t \in Workers :
        /\ Idle(t) /\ req[t] = Cmd(A3, "conn", NameC) /\ OnlyRequests(t, t)
        /\ log[t] = <<Reply(t, Welcome(NameC)),
                      Sent(A3, HistoryWrap(Joined(NameA)), "history_lock"),
                      Sent(A3, HistoryWrap(Joined(NameB)), "history_lock"),
                      Sent(A3, HistoryWrap(ChatLine(NameA, Hi)), "history_lock"),
                      Sent(A2, Joined(NameC), "clients_lock"),
                      Sent(A1, Joined(NameC), "clients_lock")>>

(***************************************************************************)
(* C17  A conn from an address that already has a registration re-uses the *)
(* existing entry: the entry's name becomes the requested name (provided   *)
(* no other client holds it), its mute list is unchanged, and no second    *)
(* entry is created.                                                       *)
(***************************************************************************)
\* handler t of a conn runs its registration section; the address is registered
Reconnects(t) ==
    StepOf(t) /\ pc[t] = "conn_reg" /\ req[t].type = "conn" /\ IsRegistered(req[t].addr)

HeldByOther(t) ==
    \E n \in Others(Entry(req[t].addr)) : mem[n].name = req[t].payload

C17_ReconnReusesEntry ==
    [][\A t \in Workers :
          Reconnects(t) =>
             LET e == Entry(req[t].addr)
             IN /\ clients_head' = clients_head /\ allocated' = allocated
                /\ mem'[e].muted = mem[e].muted /\ mem'[e].addr = mem[e].addr
                /\ ~HeldByOther(t) =>
                      /\ mem'[e].name = req[t].payload
                      /\ NewLog(t) = <<Reply(t, Welcome(req[t].payload))>>]_vars

\* a, with b muted, has connected again as c: one entry for A1, named c, b muted
C17_ReconnectedUnderNewName ==
    \E t \in Workers :
        /\ Idle(t) /\ req[t] = Cmd(A1, "conn", NameC) /\ OnlyRequests(t, t)
        /\ WasRegistered(A1) /\ NameWas(A1) = NameA
        /\ Len(clients_head) = 2 /\ AddrUnique
        /\ mem[Entry(A1)].name = NameC /\ mem[Entry(A1)].muted = <<NameB>>
        /\ Got(t, Welcome(NameC))

(***************************************************************************)
(* C18  A disconn from an address that is not registered (never            *)
(* registered, or already disconnected) is answered with the               *)
(* not-connected reply, removes nothing, changes no client record, and     *)
(* broadcasts no leave announcement.                                       *)
(***************************************************************************)
\* handler t of a disconn identifies its sender or acts on the command while
\* its address has no entry
DisconnOfAbsent(t) ==
    /\ StepOf(t) /\ req[t].type = "disconn"
    /\ pc[t] \in {"lookup", "touch", "disc_do"}
    /\ ~IsRegistered(req[t].addr)

C18_DisconnOfAbsentIsNoOp ==
    [][\A t \in Workers :
          DisconnOfAbsent(t) =>
             /\ SameClients /\ UNCHANGED hist
             /\ pc'[t] \notin {"bc_hist", "bc_send"}
             /\ pc'[t] = "done" => log'[t] = <<Reply(t, NotConnected)>>]_vars

\* a has left and sends disconn once more: not connected, b is still there
C18_SecondDisconnAnswered ==
    \E t \in Workers :
        /\ Idle(t) /\ req[t] = Cmd(A1, "disconn", Empty) /\ OnlyRequests(t, t)
        /\ ~WasRegistered(A1) /\ log[t] = <<Reply(t, NotConnected)>>
        /\ appended = <<Joined(NameA), Joined(NameB), Left(NameA)>>
        /\ Len(clients_head) = 1 /\ IsRegistered(A2)

(***************************************************************************)
(* Steps of mute and unmute; the caller is looked up under the write lock. *)
(***************************************************************************)
Unmutes(t) == StepOf(t) /\ pc[t] = "unmute_do" /\ IsRegistered(req[t].addr)
Mutes(t) == StepOf(t) /\ pc[t] = "mute_do" /\ IsRegistered(req[t].addr)
MuteListOf(a) == mem[Entry(a)].muted
InMuteList(a, p) == \E i \in 1..Len(MuteListOf(a)) : MuteListOf(a)[i] = p

(***************************************************************************)
(* C19  An unmute of a name that is not in the caller's mute list returns  *)
(* the not-muted error and leaves the list unchanged, however often it is  *)
(* repeated; an unmute of a name that is in the list removes exactly that  *)
(* name and keeps the other entries in order.                              *)
(***************************************************************************)
C19_UnmuteRemovesExactlyTheName ==
    [][\A t \in Workers :
          Unmutes(t) =>
             LET a == req[t].addr
                 p == req[t].payload
             IN IF InMuteList(a, p)
                THEN /\ NewLog(t) = <<Reply(t, Unmuted(p))>>
                     /\ mem'[Entry(a)].muted = SelectSeq(MuteListOf(a), LAMBDA x : x # p)
                ELSE /\ NewLog(t) = <<Reply(t, ErrNotMuted(p))>>
                     /\ mem'[Entry(a)].muted = MuteListOf(a)]_vars

\* a muted b, c and hi and unmuted c: b and hi are left, in that order, and
\* the third unmute of c is refused like the second
C19_UnmutedAndRepeated ==
    \E t \in Workers :
        /\ Idle(t) /\ req[t] = Cmd(A1, "unmute", NameC) /\ rounds = <<<< >>>>
        /\ log[t] = <<Reply(t, ErrNotMuted(NameC))>>
        /\ MuteListOf(A1) = <<NameB, Hi>>

(***************************************************************************)
(* C20  In every reachable state each client's mute list holds at most     *)
(* MAX_MUTE names and no name twice; a mute of a name that is already in   *)
(* the caller's list succeeds and leaves the list unchanged, and a mute of *)
(* a new name fails with the list-full error only when the list already    *)
(* holds MAX_MUTE names.                                                   *)
(***************************************************************************)
MuteListsBounded ==
    \A n \in Range(clients_head) :
        /\ Len(mem[n].muted) <= MAX_MUTE
        /\ \A i, j \in 1..Len(mem[n].muted) : i # j => mem[n].muted[i] # mem[n].muted[j]

C20_MuteListBoundedNoDuplicates ==
    /\ []MuteListsBounded
    /\ [][\A t \in Workers :
             Mutes(t) =>
                LET a == req[t].addr
                    p == req[t].payload
                IN IF InMuteList(a, p)
                   THEN /\ NewLog(t) = <<Reply(t, Muted(p))>>
                        /\ mem'[Entry(a)].muted = MuteListOf(a)
                   ELSE IF Len(MuteListOf(a)) < MAX_MUTE
                        THEN /\ NewLog(t) = <<Reply(t, Muted(p))>>
                             /\ Len(mem'[Entry(a)].muted) = Len(MuteListOf(a)) + 1
                        ELSE /\ NewLog(t) = <<Reply(t, ErrMute(p))>>
                             /\ mem'[Entry(a)].muted = MuteListOf(a)]_vars

\* a's list holds MAX_MUTE names and a new name has been refused
C20_NewNameRefusedWhenFull ==
    \E t \in Workers :
        /\ Idle(t) /\ req[t] = Cmd(A1, "mute", NameC)
        /\ log[t] = <<Reply(t, ErrMute(NameC))>>
        /\ Len(MuteListOf(A1)) = MAX_MUTE /\ MuteListsBounded
        /\ ~InMuteList(A1, NameC)

(***************************************************************************)
(* C21  A say from an unregistered address is answered with the            *)
(* not-registered error, and a say with an empty payload from a registered *)
(* client gets no reply at all; in both cases nothing is delivered to any  *)
(* other client and nothing is appended to history: the handler returns    *)
(* from that step with nothing else written.                               *)
(***************************************************************************)
SayOf(t) == StepOf(t) /\ req[t].type = "say"
\* line 444: the lookup found nobody
SayUnregistered(t) == SayOf(t) /\ pc[t] = "lookup" /\ ~IsRegistered(req[t].addr)
\* line 452: a sender was found and there is no text
SayEmpty(t) == SayOf(t) /\ pc[t] = "touch" /\ req[t].payload = Empty

C21_SayRefusedOrIgnored ==
    [][\A t \in Workers :
          /\ SayUnregistered(t) =>
                /\ pc'[t] = "done"
                /\ log'[t] = <<Reply(t, ErrMustConn("sending messages"))>>
                /\ SameClients /\ UNCHANGED hist
          /\ (SayOf(t) /\ pc[t] = "lookup" /\ IsRegistered(req[t].addr)) =>
                /\ pc'[t] = "touch" /\ log'[t] = << >>
                /\ SameClients /\ UNCHANGED hist
          /\ SayEmpty(t) =>
                /\ pc'[t] = "done" /\ log'[t] = << >>
                /\ SameClients /\ UNCHANGED hist]_vars

\* a sent a say without text: its handler has returned and has written
\* nothing, and the history holds the two join lines and nothing else
C21_EmptySayIgnored ==
    /\ \E t \in Workers :
          /\ Idle(t) /\ req[t] = Cmd(A1, "say", Empty) /\ OnlyRequests(t, t)
          /\ log[t] = << >>
    /\ IsRegistered(A1) /\ IsRegistered(A2)
    /\ appended = <<Joined(NameA), Joined(NameB)>>
    /\ history_count = 2

(***************************************************************************)
(* C22  A datagram without the '$' delimiter, or with a command that is    *)
(* not one of the recognised commands, is answered with an ERR reply sent  *)
(* to its sender only, and leaves the set of registered clients, all       *)
(* names, all mute lists and the history buffer unchanged.                 *)
(***************************************************************************)
\* the commands request_handler compares the type with
Recognised == {"ret-ping", "conn", "say", "sayto", "mute", "unmute", "rename", "disconn", "kick"}
ProtocolError(t) == req[t] # NoReq /\ req[t].type \notin Recognised
ErrOf(t) == IF req[t].type = "malformed" THEN ErrMalformed ELSE ErrUnknown(req[t].type)

C22_ProtocolErrorOnlyReplies ==
    [][\A t \in Workers :
          (StepOf(t) /\ ProtocolError(t)) =>
             /\ SameClients /\ UNCHANGED hist
             /\ pc'[t] \in {"touch", "done"}
             /\ log'[t] = IF pc'[t] = "done" THEN <<Reply(t, ErrOf(t))>> ELSE << >>]_vars

\* a, who has muted b, sent an unknown command: a got the error, a and b
\* are registered as before and a's mute list is as it was
C22_UnknownCommandAnswered ==
    \E t \in Workers :
        /\ Idle(t) /\ req[t] = Cmd(A1, "noop", Empty) /\ OnlyRequests(t, t)
        /\ log[t] = <<Sent(A1, ErrUnknown("noop"), "none")>>
        /\ Len(clients_head) = 2 /\ mem[Entry(A1)].name = NameA /\ mem[Entry(A2)].name = NameB
        /\ mem[Entry(A1)].muted = <<NameB>>
        /\ appended = <<Joined(NameA), Joined(NameB)>>

(***************************************************************************)
(* C23  Every public (say) message and every private (sayto) message that  *)
(* the server delivers is recorded in the history buffer, so that it is    *)
(* among the lines replayed to a client that connects afterwards (while    *)
(* still within the last 15): a chat line written to a client is one of    *)
(* the lines the buffer holds at that moment.                              *)
(***************************************************************************)
\* the lines of lines 456 and 508: "<name>: <text>" and "<name> (private): <text>"
IsChat(m) == Len(m) = 3 /\ m[1] \in {"%s: %s", "%s (private): %s"}
InHistory(m) == \E i \in 0..(history_count - 1) : history[history_index(i)] = m

C23_DeliveredChatIsRecorded ==
    [][\A t \in Workers : \A i \in 1..Len(NewLog(t)) :
          IsChat(NewLog(t)[i].msg) => InHistory(NewLog(t)[i].msg)]_vars

\* a's private line has been written to b and acknowledged to a, and the
\* buffer holds the two join lines only
C23_PrivateLineNotRecorded ==
    \E t \in Workers :
        /\ Idle(t) /\ req[t] = Dgram(A1, "sayto", NameB, Hi) /\ OnlyRequests(t, t)
        /\ log[t] = <<Sent(A2, PrivLine(NameA, Hi), "none"), Sent(A1, Ack(NameB), "none")>>
        /\ appended = <<Joined(NameA), Joined(NameB)>> /\ history_count = 2
        /\ ~InHistory(PrivLine(NameA, Hi))

(***************************************************************************)
(* C24  The monitor sends a probe to a client only when that client has    *)
(* been inactive for at least 600 seconds (10 minutes), and removes it     *)
(* only when a further 20 seconds have passed after the probe without any  *)
(* request from it.                                                        *)
(***************************************************************************)
\* the step of the monitor that writes ping$ to the address of record n
MonProbes(n) ==
    /\ pc[Mon] = "m_check" /\ pc'[Mon] # "m_check"
    /\ loc[Mon].target = n /\ InList(n)
    /\ NewLog(Mon) = <<Sent(mem[n].addr, Ping, "none")>>

C24_ProbeAfterTenMinutesRemovalAfterTimeout ==
    [][\A n \in Nodes :
          /\ MonProbes(n) =>
                loc[Mon].now - mem[n].last_active >= INACTIVITY_THRESHOLD_README
          /\ MonRemoves(n) =>
                /\ probe[n] # NoProbe
                /\ loc[Mon].now - probe[n].at >= PING_TIMEOUT
                /\ ~probe[n].answered]_vars

\* a connected at time 0 and is probed in the monitor's first cycle
C24_ProbedInFirstCycle ==
    /\ IsRegistered(A1)
    /\ log[Mon] = <<Sent(A1, Ping, "none")>>
    /\ mem[Entry(A1)].last_active = 0 /\ mem[Entry(A1)].ping_sent = 1
    /\ mem[Entry(A1)].ping_time = MONITOR_INTERVAL
    /\ mem[Entry(A1)].ping_time < INACTIVITY_THRESHOLD_README

(***************************************************************************)
(* C25  No thread calls the transport write while holding the registry     *)
(* lock or the history lock: replies, broadcasts, history replay lines and *)
(* probes are all sent only after the lock has been released.              *)
(***************************************************************************)
C25_NoWriteUnderLock ==
    \A t \in Threads : \A i \in 1..Len(log[t]) : log[t][i].lk = "none"

\* b has connected: the welcome was written with no lock held, the replayed
\* line inside history_lock, the join line to a inside the read lock
C25_ReplayAndBroadcastUnderLock ==
    \E t \in Workers :
        /\ Idle(t) /\ req[t] = Cmd(A2, "conn", NameB)
        /\ log[t] = <<Sent(A2, Welcome(NameB), "none"),
                      Sent(A2, HistoryWrap(Joined(NameA)), "history_lock"),
                      Sent(A1, Joined(NameB), "clients_lock")>>

(***************************************************************************)
(* C26  A request handler never uses a client record that it looked up     *)
(* before acquiring a lock without re-resolving it by address or name      *)
(* under that lock; consequently no handler step and no monitor step reads *)
(* or writes a client record after that record has been removed (freed)    *)
(* from the registry by another thread: the records the next step of a     *)
(* thread reads or writes through its own pointers are allocated.          *)
(***************************************************************************)
\* the pointers kept from an earlier lock section that the next step of
\* thread t dereferences
Derefs(t) ==
    CASE pc[t] = "touch" -> {loc[t].sender}
      [] pc[t] = "say_fmt" -> {loc[t].sender}
      [] pc[t] = "st_muted" -> {loc[t].recipient, loc[t].sender}
      [] pc[t] = "st_send" ->
            IF loc[t].muted = 1 THEN {loc[t].recipient} ELSE {loc[t].sender, loc[t].recipient}
      [] pc[t] = "rename_do" ->
            LET existing == find_client_by_name(req[t].payload)
            IN IF existing # NULL /\ existing # loc[t].sender THEN {} ELSE {loc[t].sender}
      [] pc[t] = "disc_do" -> {loc[t].sender}
      [] pc[t] = "bc_send" /\ loc[t].mode = "from" ->
            IF \E n \in Range(clients_head) : n # loc[t].skip THEN {loc[t].skip} ELSE {}
      [] pc[t] = "m_evict" -> {loc[t].target}
      [] OTHER -> {}

C26_NoUseAfterFree == \A t \in Threads : Derefs(t) \subseteq allocated

\* a's unknown command has found a's record; a's disconn has freed it; the
\* first handler now stands before the liveness update through its pointer
C26_LivenessUpdateOfFreedRecord ==
    \E t, u \in Workers :
        /\ pc[t] = "touch" /\ req[t] = Cmd(A1, "noop", Empty)
        /\ req[u] = Cmd(A1, "disconn", Empty) /\ pc[u] \in {"bc_hist", "bc_send", "done"}
        /\ loc[t].sender \notin allocated
        /\ ~IsRegistered(A1)

(***************************************************************************)
(* The lock sections of request_handler, broadcast_all,                    *)
(* broadcast_from_sender, history_add, history_send_to_client and          *)
(* monitor_thread: what the next step of thread t holds while it accesses  *)
(* shared state, by the place where the thread stands.                     *)
(***************************************************************************)
\* pthread_rwlock_rdlock(&clients_lock) ... unlock
ReadLocked == {"lookup", "st_find", "st_muted", "bc_send", "m_scan"}
\* pthread_rwlock_wrlock(&clients_lock) ... unlock
WriteLocked == {"retping", "touch", "conn_reg", "mute_do", "unmute_do", "rename_do",
                "disc_do", "kick_do", "m_check", "m_evict"}
\* as HistoryLocked, had the broadcast functions called history_add inside
\* their pass over the list
HistoryLocked_in_pass == {"conn_hist", "bc_hist", "bc_send"}

\* pthread_mutex_lock(&history_lock) ... unlock
HistoryLocked == {"conn_hist", "bc_hist"}

clients_lock_mode(t) ==
    IF pc[t] \in WriteLocked THEN "wr" ELSE IF pc[t] \in ReadLocked THEN "rd" ELSE "none"

\* the next step of thread t reads a field of a client record
ReadsRecord(t) ==
    pc[t] \in {"retping", "lookup", "conn_reg", "say_fmt", "st_find", "st_muted", "st_send",
               "mute_do", "unmute_do", "rename_do", "disc_do", "kick_do", "bc_send",
               "m_scan", "m_check", "m_evict"}
\* the next step of thread t writes a field of a client record, or frees one
WritesRecord(t) ==
    pc[t] \in {"retping", "touch", "conn_reg", "mute_do", "unmute_do", "rename_do",
               "disc_do", "kick_do", "m_check", "m_evict"}

(***************************************************************************)
(* C27  Every read and every write of a client record (name, address, mute *)
(* list, last-active and ping fields) by a request handler or by the       *)
(* monitor happens while that thread holds the registry lock, in write     *)
(* mode for writes and at least read mode for reads; names and addresses   *)
(* used after unlocking are copies taken under the lock.                   *)
(***************************************************************************)
C27_RecordAccessUnderLock ==
    \A t \in Threads :
        /\ WritesRecord(t) => clients_lock_mode(t) = "wr"
        /\ ReadsRecord(t) => clients_lock_mode(t) \in {"rd", "wr"}

\* a's say stands at line 456, about to read a's name with no lock, while
\* a's rename stands before the write lock section that overwrites it
C27_NameReadWhileRenamed ==
    \E t, u \in Workers :
        /\ req[t] = Cmd(A1, "say", Hi) /\ pc[t] = "say_fmt"
        /\ req[u] = Cmd(A1, "rename", NameC) /\ pc[u] = "rename_do"
        /\ loc[t].sender = Entry(A1) /\ loc[u].sender = Entry(A1)
        /\ clients_lock_mode(t) = "none"

(***************************************************************************)
(* C28  If the client selected by the monitor's scan is removed by a       *)
(* request handler (disconn or kick) at any point before the monitor's     *)
(* removal step, the monitor's eviction is a no-op: it removes nothing,    *)
(* sends no inactivity notice and broadcasts no eviction announcement for  *)
(* that client.                                                            *)
(***************************************************************************)
\* the monitor stands before lines 780-794 and the record it selected has
\* left the list, or its chunk belongs to a client registered since
TargetGone ==
    /\ pc[Mon] = "m_evict"
    /\ ~InList(loc[Mon].target) \/ probe[loc[Mon].target] = NoProbe

C28_EvictionOfRemovedIsNoOp ==
    [][(TargetGone /\ pc'[Mon] # "m_evict") =>
          /\ pc'[Mon] = "m_sleep"
          /\ NewLog(Mon) = << >>
          /\ SameClients /\ UNCHANGED hist]_vars

\* the admin's kick has removed a and told it so; the monitor, which had
\* selected a, has sent a the inactivity notice and goes on to announce
C28_EvictedAfterKick ==
    \E t \in Workers :
        /\ req[t] = Cmd(Admin, "kick", NameA) /\ Wrote(t, A1, YouRemoved)
        /\ pc[Mon] = "bc_hist" /\ loc[Mon].msg = Inactive(NameA)
        /\ log[Mon] = <<Sent(A1, YouInactive, "none")>>
        /\ ~IsRegistered(A1)

(***************************************************************************)
(* C29  A rename that is processed when the sender's address is no longer  *)
(* in the registry at the moment the write lock is taken (the client was   *)
(* removed by a concurrent disconn, kick or eviction) fails with the       *)
(* not-registered error, changes no name and broadcasts no rename          *)
(* announcement.                                                           *)
(***************************************************************************)
\* handler t takes the write lock of line 595 and its sender has left
RenameOfAbsent(t) == StepOf(t) /\ pc[t] = "rename_do" /\ ~IsRegistered(req[t].addr)

C29_RenameOfRemovedSenderFails ==
    [][\A t \in Workers :
          RenameOfAbsent(t) =>
             /\ pc'[t] = "done"
             /\ NewLog(t) = <<Reply(t, ErrMustConn("renaming"))>>
             /\ SameClients /\ UNCHANGED hist]_vars

\* a's disconn was carried out while a was still called a; a's rename was
\* carried out after it, was confirmed to a and announced to b
C29_RenamedAfterLeaving ==
    \E t, u \in Workers :
        /\ Idle(t) /\ req[t] = Cmd(A1, "rename", NameC)
        /\ log[t] = <<Sent(A1, NowKnown(NameC), "none"),
                      Sent(A2, Renamed(NameA, NameC), "clients_lock")>>
        /\ Idle(u) /\ req[u] = Cmd(A1, "disconn", Empty) /\ Got(u, Bye)
        /\ \E i \in 1..Len(appended) : appended[i] = Left(NameA)
        /\ ~IsRegistered(A1)

(***************************************************************************)
(* C30  No thread ever holds the registry lock and the history lock at the *)
(* same time, so no lock-order deadlock between the two locks is           *)
(* reachable: the next step of a thread holds at most one of them, where   *)
(* the registry changes only in steps that hold clients_lock in write      *)
(* mode, the history only in steps that hold history_lock, and a write to  *)
(* the socket made inside a lock section is made in a step that holds that *)
(* lock.                                                                   *)
(***************************************************************************)
\* the locks the next step of thread t takes
Held(t) ==
    (IF clients_lock_mode(t) # "none" THEN {"clients_lock"} ELSE {})
    \cup (IF pc[t] \in HistoryLocked THEN {"history_lock"} ELSE {})

\* the step of thread t
Runs(t) == pc'[t] # pc[t] /\ (t \in Workers => ~Idle(t))

LockAt(label) ==
    IF label \in HistoryLocked THEN "history_lock"
    ELSE IF label \in ReadLocked \cup WriteLocked THEN "clients_lock"
    ELSE "none"

\* as in_section, had the paths that go on after a section not unlocked
in_section_no_unlock(u) == loc[u].at # "none"

\* thread u has locked and not yet unlocked
in_section(u) == loc[u].at = pc[u]

HoldsLock(u, l) == in_section(u) /\ LockAt(loc[u].at) = l
HoldsWrite(u) == HoldsLock(u, "clients_lock") /\ loc[u].at \in WriteLocked

\* as CanLock, with a history_lock that is granted while another thread has it
CanLock_history_free(t) ==
    IF pc[t] \in HistoryLocked THEN TRUE
    ELSE IF pc[t] \in WriteLocked THEN \A u \in Threads : ~HoldsLock(u, "clients_lock")
    ELSE \A u \in Threads : ~HoldsWrite(u)

\* pthread_mutex_lock, pthread_rwlock_rdlock, pthread_rwlock_wrlock return
CanLock(t) ==
    IF pc[t] \in HistoryLocked THEN \A u \in Threads : ~HoldsLock(u, "history_lock")
    ELSE IF pc[t] \in WriteLocked THEN \A u \in Threads : ~HoldsLock(u, "clients_lock")
    ELSE \A u \in Threads : ~HoldsWrite(u)

AcquireLock(t) ==
    /\ LockAt(pc[t]) # "none"
    /\ loc[t].at # pc[t]
    /\ CanLock(t)
    /\ loc' = [loc EXCEPT ![t].at = pc[t]]
    /\ UNCHANGED <<registry, hist, clock, pc, req, log, env, probe>>

\* the thread needs no lock where it stands, or has it
MayRun(t) == LockAt(pc[t]) = "none" \/ loc[t].at = pc[t]

RunHandler(t) ==
    /\ MayRun(t)
    /\ \/ Malformed(t) \/ RetPing(t) \/ Lookup(t) \/ Touch(t)
       \/ ConnReg(t) \/ ConnReplay(t) \/ SayFmt(t)
       \/ StFind(t) \/ StMuted(t) \/ StSend(t)
       \/ MuteDo(t) \/ UnmuteDo(t) \/ RenameDo(t)
       \/ DisconnDo(t) \/ KickDo(t)
       \/ BcHist(t) \/ BcSend(t)

RunMonitor ==
    /\ MayRun(Mon)
    /\ MonWake \/ MonScan \/ MonCheck \/ MonEvict \/ BcHist(Mon) \/ BcSend(Mon)

Acquire == \E t \in Threads : AcquireLock(t)
RunHandlers == \E t \in Workers : RunHandler(t)

\* a and b connect together; then two requests arrive together
LockLast == {<<Cmd(A1, "say", Hi), Cmd(A2, "rename", NameC)>>,
             <<Cmd(A1, "disconn", Empty), Cmd(Admin, "kick", NameB)>>,
             <<Dgram(A1, "sayto", NameB, Hi), Cmd(A2, "mute", NameA)>>,
             <<Cmd(A1, "unmute", NameB), Cmd(A2, "ret-ping", Empty)>>,
             <<Cmd(A1, "malformed", Empty), Cmd(A1, "rename", NameB)>>}

\* the clients send while the monitor's first cycle is due or before
LockDispatch == clock <= MONITOR_INTERVAL /\ Dispatch
ScriptsLock == {<<<<Cmd(A1, "conn", NameA), Cmd(A2, "conn", NameB)>>, last>> : last \in LockLast}

LockTick ==
    /\ \A t \in Workers : Idle(t)
    /\ pc[Mon] = "m_sleep" /\ clock < loc[Mon].wake
    /\ clock + TickStep <= MaxTime
    /\ clock' = clock + TickStep
    /\ UNCHANGED <<registry, hist, pc, req, loc, log, env, probe>>

InitLock == InitWith(ScriptsLock)
NextLock == LockDispatch \/ NextRound \/ LockTick \/ Acquire \/ RunHandlers \/ RunMonitor
SpecLock == InitLock /\ [][NextLock]_vars

\* every thread that can take a step does, and time passes
SpecLockFair ==
    /\ SpecLock
    /\ \A t \in Workers : WF_vars(AcquireLock(t) \/ RunHandler(t))
    /\ WF_vars(AcquireLock(Mon) \/ RunMonitor)
    /\ WF_vars(LockTick)

Newest == history[history_index(history_count - 1)]
\* thread t enters broadcast_all or broadcast_from_sender
BroadcastBegins(t) == pc[t] # "bc_hist" /\ pc'[t] = "bc_hist"
\* thread t leaves history_add
BroadcastAppends(t) == pc[t] = "bc_hist" /\ pc'[t] # "bc_hist"
\* thread t leaves the pass over the list
BroadcastDelivers(t) == pc[t] = "bc_send" /\ pc'[t] # "bc_send"
\* a line written to a client inside the pass over the list
Delivered(t) == {i \in 1..Len(NewLog(t)) : NewLog(t)[i].lk = "clients_lock"}

C32_BroadcastAppendedOnceBeforeDelivery ==
    [][/\ \A t \in Threads :
             /\ BroadcastBegins(t) => (UNCHANGED hist /\ Delivered(t) = {})
             /\ BroadcastAppends(t) =>
                   /\ appended' = Append(appended, loc[t].msg)
                   /\ Newest' = loc[t].msg
                   /\ pc'[t] = "bc_send" /\ loc'[t].msg = loc[t].msg
                   /\ NewLog(t) = << >>
             /\ BroadcastDelivers(t) =>
                   /\ UNCHANGED hist
                   /\ \A i \in 1..Len(NewLog(t)) : NewLog(t)[i].msg = loc[t].msg
             /\ Delivered(t) # {} => BroadcastDelivers(t)
       /\ appended' # appended => \E t \in Threads : BroadcastAppends(t)]_vars

\* a has renamed itself: the announcement is the last line of the history,
\* once, and b has been sent it
C32_RenameAnnouncedAndRecorded ==
    \E t \in Workers :
        /\ Idle(t) /\ req[t] = Cmd(A1, "rename", NameC) /\ OnlyRequests(t, t)
        /\ log[t] = <<Sent(A1, NowKnown(NameC), "none"),
                      Sent(A2, Renamed(NameA, NameC), "clients_lock")>>
        /\ appended = <<Joined(NameA), Joined(NameB), Renamed(NameA, NameC)>>
        /\ history_count = 3 /\ history[2] = Renamed(NameA, NameC)

(***************************************************************************)
(* C33  In every reachable state 0 <= history_count <= HISTORY_SIZE and    *)
(* 0 <= history_start < HISTORY_SIZE; an append writes at position         *)
(* (history_start + history_count) mod HISTORY_SIZE and, when the buffer   *)
(* is already full, overwrites the oldest entry and advances history_start *)
(* by one instead of increasing history_count.                             *)
(***************************************************************************)
HistoryInRange ==
    /\ 0 <= history_count /\ history_count <= HISTORY_SIZE
    /\ 0 <= history_start /\ history_start < HISTORY_SIZE

AppendStep ==
    appended' # appended =>
        LET pos == (history_start + history_count) % HISTORY_SIZE
            msg == appended'[Len(appended')]
        IN /\ Len(appended') = Len(appended) + 1
           /\ history' = [history EXCEPT ![pos] = msg]
           /\ IF history_count < HISTORY_SIZE
              THEN history_count' = history_count + 1 /\ history_start' = history_start
              ELSE /\ pos = history_start
                   /\ history_start' = (history_start + 1) % HISTORY_SIZE
                   /\ history_count' = history_count

C33_HistoryRing ==
    /\ []HistoryInRange
    /\ [][AppendStep /\ (appended' = appended => UNCHANGED hist)]_vars

\* two lines more than the buffer holds have been appended: the buffer is
\* full, starts at slot 2, and slots 0 and 1 hold the two newest lines
C33_WrappedTwice ==
    /\ Len(appended) = HISTORY_SIZE + 2
    /\ history_count = HISTORY_SIZE /\ history_start = 2
    /\ history[0] = appended[HISTORY_SIZE + 1] /\ history[1] = appended[HISTORY_SIZE + 2]
    /\ history[2] = appended[3]

(***************************************************************************)
(* C34  A public chat line whose text is prefixed with sender name N is    *)
(* never delivered to a client whose mute list contains N at the moment of *)
(* delivery, even when a rename of the sender is processed concurrently    *)
(* with its say (between the formatting of the line and the mute check of  *)
(* the broadcast).                                                         *)
(***************************************************************************)
\* the name in front of the line handler t broadcasts
PrefixOf(t) == loc[t].msg[2]

C34_NoLineFromMutedName ==
    [][\A t \in Workers :
          SayDelivers(t) =>
             \A i \in 1..Len(NewLog(t)) :
                \A n \in Range(clients_head) :
                   sockaddrs_equal(mem[n].addr, NewLog(t)[i].to) =>
                      ~recipient_has_muted_sender(n, PrefixOf(t))]_vars

\* b has muted a; a's line "a: hi" has been written to b, and a is now c
C34_LineOfOldNameDelivered ==
    \E t \in Workers :
        /\ Idle(t) /\ req[t] = Cmd(A1, "say", Hi)
        /\ log[t] = <<Sent(A2, ChatLine(NameA, Hi), "clients_lock")>>
        /\ IsRegistered(A1) /\ mem[Entry(A1)].name = NameC
        /\ IsRegistered(A2) /\ mem[Entry(A2)].muted = <<NameA>>

(***************************************************************************)
(* C35  A connecting client never receives the same broadcast message      *)
(* twice, once live and once in the history replay of its conn: no message *)
(* that is delivered live to the client after its registry entry became    *)
(* visible is also contained in the replay sent for that conn, under any   *)
(* interleaving with concurrent broadcasts.                                *)
(***************************************************************************)
\* handler t of a conn has replayed line m to its client
Replayed(t, m) ==
    \E i \in 1..Len(log[t]) :
        /\ log[t][i].lk = "history_lock"
        /\ log[t][i].msg[2] = m
\* handler u has written line m to address a in its pass over the list
SentLive(u, a, m) ==
    \E j \in 1..Len(log[u]) :
        /\ log[u][j].lk = "clients_lock"
        /\ sockaddrs_equal(log[u][j].to, a)
        /\ log[u][j].msg = m

C35_NoLineLiveAndReplayed ==
    \A t \in Workers : \A u \in Workers \ {t} :
        (req[t].type = "conn" /\ req[u] # NoReq) =>
            \A k \in 1..Len(appended) :
                ~(Replayed(t, appended[k]) /\ SentLive(u, req[t].addr, appended[k]))

\* b connected while a's line was broadcast: the line was written to b by
\* the broadcast and again, as a replayed line, by b's conn
C35_LineTwice ==
    \E t, u \in Workers :
        /\ Idle(t) /\ req[t] = Cmd(A2, "conn", NameB)
        /\ Idle(u) /\ req[u] = Cmd(A1, "say", Numbered(MaxK + 1))
        /\ SentLive(u, A2, ChatLine(NameA, Numbered(MaxK + 1)))
        /\ \E i \in 1..Len(log[t]) :
               log[t][i] = Sent(A2, HistoryWrap(ChatLine(NameA, Numbered(MaxK + 1))),
                                "history_lock")

(***************************************************************************)
(* C36  The monitor marks and sends a probe only to a client whose idle    *)
(* time, at the moment the probe is marked under the write lock, is at     *)
(* least the inactivity threshold; a client whose activity was refreshed   *)
(* between the monitor's scan and the marking is not probed in that cycle. *)
(***************************************************************************)
\* record n was written by the liveness update after the monitor took its
\* time for this cycle
RefreshedSinceScan(n) ==
    /\ pc[Mon] = "m_check" /\ loc[Mon].target = n
    /\ mem[n].last_active # loc[Mon].oldest

C36_ProbeOnlyIfStillIdle ==
    [][\A n \in Nodes :
          MonProbes(n) =>
             /\ clock - mem[n].last_active >= INACTIVITY_THRESHOLD
             /\ ~RefreshedSinceScan(n)]_vars

\* a's say was handled between the monitor's scan and its marking: a is
\* marked and probed in the same moment in which it was active
C36_ProbedThoughActive ==
    /\ IsRegistered(A1)
    /\ log[Mon] = <<Sent(A1, Ping, "none")>>
    /\ mem[Entry(A1)].ping_sent = 1
    /\ mem[Entry(A1)].last_active = clock
    /\ mem[Entry(A1)].ping_time <= mem[Entry(A1)].last_active
    /\ \E t \in Workers : req[t] = Cmd(A1, "say", Hi)

(***************************************************************************)
(* C37  For each registration of a client, at most one departure           *)
(* announcement (has left the chat, has been removed, or has been          *)
(* disconnected due to inactivity) is broadcast, under any interleaving of *)
(* disconn requests from that client, admin kicks naming it, and the       *)
(* monitor's eviction of it.  A registration ends when its entry leaves    *)
(* the list, so every step that starts such an announcement has to take    *)
(* exactly one entry out of the list.                                      *)
(***************************************************************************)
IsDeparture(m) ==
    m[1] \in {Left(Empty)[1], Removed(Empty)[1], Inactive(Empty)[1]}

\* thread t leaves the lock section of disconn, kick or eviction with a
\* departure announcement to broadcast
AnnouncesDeparture(t) ==
    /\ pc[t] \in {"disc_do", "kick_do", "m_evict"}
    /\ pc'[t] = "bc_hist"
    /\ IsDeparture(loc'[t].msg)

EndsOneRegistration ==
    \E n \in Range(clients_head) : Range(clients_head') = Range(clients_head) \ {n}

C37_OneDepartureAnnouncement ==
    [][\A t \in Threads : AnnouncesDeparture(t) => EndsOneRegistration]_vars

\* a sent disconn twice at the same time: its one registration has been
\* announced as left twice
C37_LeftTwice ==
    /\ \A t \in Workers : Idle(t)
    /\ rounds = << >>
    /\ appended = <<Joined(NameA), Joined(NameB), Left(NameA), Left(NameA)>>
    /\ ~WasRegistered(A1) /\ IsRegistered(A2)

(***************************************************************************)
(* C38  Mute entries are names, not clients: A's mute of name N suppresses *)
(* the public messages of whichever client holds name N at the time the    *)
(* message is broadcast; after the muted client renames itself to a name   *)
(* not in A's list its say messages are delivered to A again, and a        *)
(* different client that takes name N is suppressed for A.                 *)
(***************************************************************************)
C38_MuteFollowsTheName ==
    [][\A t \in Workers :
          (SayDelivers(t) /\ IsRegistered(req[t].addr)) =>
             LET s == Entry(req[t].addr)
             IN \A n \in Others(s) :
                   HasMuted(n, s) <=> (mem[n].addr \notin SayReaches(t))]_vars

\* a has muted the name b.  b's say overlapped with b leaving and joining
\* again as b: the line of b was written to a
C38_MutedNameDelivered ==
    \E t \in Workers :
        /\ \A u \in Workers : Idle(u)
        /\ req[t] = Cmd(A2, "say", Hi)
        /\ IsRegistered(A1) /\ mem[Entry(A1)].muted = <<NameB>>
        /\ IsRegistered(A2) /\ mem[Entry(A2)].name = NameB
        /\ Wrote(t, A1, ChatLine(NameB, Hi))

\* Without such an overlap (SpecCmd): b has muted the name a.  The client
\* at address 1, once a and now c, has said hi and b got it; the client at
\* address 3, now a, has said hi and b did not get it
C38_NameNotClient ==
    \E t, u \in Workers :
        /\ Idle(t) /\ req[t] = Cmd(A3, "say", Hi)
        /\ Idle(u) /\ req[u] = Cmd(A1, "say", Hi)
        /\ mem[Entry(A2)].muted = <<NameA>>
        /\ mem[Entry(A1)].name = NameC /\ mem[Entry(A3)].name = NameA
        /\ log[u] = <<Sent(A3, ChatLine(NameC, Hi), "clients_lock"),
                      Sent(A2, ChatLine(NameC, Hi), "clients_lock")>>
        /\ log[t] = <<Sent(A1, ChatLine(NameA, Hi), "clients_lock")>>

(***************************************************************************)
(* The replay line by line.  history_send_to_client locks history_lock,    *)
(* runs its loop, one udp_socket_write per turn, and unlocks; history_add  *)
(* waits for the same lock.  history_count and history_start are read in   *)
(* every turn of the loop, as in the code.                                 *)
(***************************************************************************)
\* lines 270-275: one turn of the loop
ReplayLine(t) ==
    /\ pc[t] = "conn_hist"
    /\ loc[t].i < history_count
    /\ Goto(t, "conn_hist", [loc[t] EXCEPT !.i = @ + 1],
            <<Sent(req[t].addr, HistoryWrap(history[history_index(loc[t].i)]), "history_lock")>>)
    /\ UNCHANGED <<registry, hist, clock, req, env, probe>>

\* lines 270 and 278, then line 436: the loop ends, the lock is released
ReplayEnd(t) ==
    /\ pc[t] = "conn_hist"
    /\ ~(loc[t].i < history_count)
    /\ StartBroadcast(t, "all", Joined(req[t].payload), loc[t].sender, << >>)
    /\ UNCHANGED <<registry, hist, clock, req, env, probe>>

RunReplay(t) ==
    /\ MayRun(t)
    /\ \/ Lookup(t) \/ Touch(t) \/ ConnReg(t) \/ ReplayLine(t) \/ ReplayEnd(t)
       \/ SayFmt(t) \/ BcHist(t) \/ BcSend(t)

RunReplays == \E t \in Workers : RunReplay(t)

InitSnap == InitWith(ScriptsHist)
NextSnap == Env \/ Acquire \/ RunReplays
SpecSnap == InitSnap /\ [][NextSnap]_vars

(***************************************************************************)
(* C39  The history replay sent for one conn is a consistent snapshot: the *)
(* replayed lines are a contiguous run of the append sequence as the       *)
(* buffer stood at one instant, and no concurrent append changes the       *)
(* buffer between the first and the last replayed line.                    *)
(***************************************************************************)
\* handler t is in the loop of its replay
InReplay(t) == pc[t] = "conn_hist" /\ in_section(t)
ReplayedLines(l) == SelectSeq(l, LAMBDA s : s.lk = "history_lock")

\* what t has replayed so far is the beginning of what the buffer holds now
ReplayFollowsBuffer ==
    \A t \in Workers :
        InReplay(t) =>
            /\ loc[t].i <= history_count
            /\ ReplayedLines(log[t]) = SubSeq(ExpectedReplay(req[t].addr), 1, loc[t].i)

C39_ReplayIsSnapshot ==
    /\ []ReplayFollowsBuffer
    /\ [][\A t \in Workers :
             InReplay(t) =>
                /\ UNCHANGED hist
                /\ pc'[t] # "conn_hist" =>
                      ReplayedLines(log'[t]) = ExpectedReplay(req[t].addr)]_vars

\* b's replay is under way, the ring has wrapped, and a's next line waits
\* for history_lock
C39_AppendWaitsForReplay ==
    \E t, u \in Workers :
        /\ InReplay(t) /\ req[t] = Cmd(A2, "conn", NameB)
        /\ 0 < loc[t].i /\ loc[t].i < history_count
        /\ history_start > 0 /\ Len(appended) > HISTORY_SIZE
        /\ pc[u] = "bc_hist" /\ ~in_section(u) /\ req[u] = Cmd(A1, "say", Numbered(MaxK + 1))

(***************************************************************************)
(* C40  The set of registered addresses changes only by a successful conn  *)
(* from an unregistered address (adds exactly that address), a disconn     *)
(* from a registered address, an admin kick of a registered name, or a     *)
(* monitor eviction (each removes exactly one entry); say, sayto, mute,    *)
(* unmute, rename, ret-ping, unknown-command and malformed requests leave  *)
(* the set of registered addresses unchanged, and mute and unmute change   *)
(* no mute list other than the caller's.                                   *)
(***************************************************************************)
RegisteredAddrs == {mem[n].addr : n \in Range(clients_head)}
MuteLists == [a \in RegisteredAddrs |-> MuteListOf(a)]

\* exactly the entry of address a leaves the list
RemovesEntryOf(a) ==
    /\ IsRegistered(a)
    /\ Range(clients_head') = Range(clients_head) \ {Entry(a)}
    /\ RegisteredAddrs' = RegisteredAddrs \ {a}

\* what a step of handler t may do to the set of registered addresses
HandlerFrame(t) ==
    \/ RegisteredAddrs' = RegisteredAddrs
    \/ /\ req[t].type = "conn" /\ ~IsRegistered(req[t].addr)
       /\ RegisteredAddrs' = RegisteredAddrs \cup {req[t].addr}
       /\ Cardinality(Range(clients_head')) = Cardinality(Range(clients_head)) + 1
    \/ /\ req[t].type = "disconn"
       /\ RemovesEntryOf(req[t].addr)
    \/ /\ req[t].type = "kick" /\ req[t].addr.port = ADMIN_PORT
       /\ find_client_by_name(req[t].payload) # NULL
       /\ RemovesEntryOf(mem[find_client_by_name(req[t].payload)].addr)

\* mute lists of the clients that stay, the caller's excepted
OtherMuteListsSame(t) ==
    \A a \in (RegisteredAddrs \cap RegisteredAddrs') \ {req[t].addr} :
        MuteListOf(a)' = MuteListOf(a)

C40_RegistryChangesOnlyByJoinAndLeave ==
    [][/\ \A t \in Workers :
             StepOf(t) =>
                /\ HandlerFrame(t)
                /\ req[t].type \in {"mute", "unmute"} => OtherMuteListsSame(t)
       /\ pc'[Mon] # pc[Mon] =>
             \/ RegisteredAddrs' = RegisteredAddrs
             \/ /\ pc[Mon] = "m_evict"
                /\ \E a \in RegisteredAddrs : RemovesEntryOf(a)
       /\ (\A t \in Threads : pc'[t] = pc[t]) => RegisteredAddrs' = RegisteredAddrs]_vars

\* c connected and was welcomed while a sent disconn twice; nobody asked
\* for c's removal, yet c's address is no longer registered
C40_NewcomerRemovedByDisconnOfAnother ==
    \E t \in Workers :
        /\ \A w \in Workers : Idle(w)
        /\ req[t] = Cmd(A3, "conn", NameC) /\ Got(t, Welcome(NameC))
        /\ \A w \in Workers \ {t} : req[w] \in {NoReq, Cmd(A1, "disconn", Empty)}
        /\ ~IsRegistered(A3) /\ IsRegistered(A2)
        /\ RegisteredAddrs = {A2}

====
